---------------------------- MODULE Spec2Model ----------------------------
(***************************************************************************)
(* Clock tree configuration (src/src/clocks.rs) of the stm32l432kc HAL:    *)
(* the frequency calculation and validation functions, and Clocks::setup   *)
(* as a state machine over the RCC and FLASH registers it programs; and    *)
(* the wakeup timer of the RTC (src/src/rtc.rs): the interval encoder and  *)
(* the register sequences of set_wakeup and set_wakeup_interval.           *)
(***************************************************************************)
EXTENDS Integers, Sequences, FiniteSets, TLC

VARIABLES
    cfg,        \* the Clocks struct the current call works on (self)
    pc,         \* position of the caller inside the call it is executing
    rcc,        \* the RCC register fields setup reads and writes
    flash,      \* the FLASH register fields setup writes
    result,     \* what the last setup call returned: "none", "Ok" or "Err"
    calls,      \* number of calls started so far
    observed,   \* flags the current call has polled and seen in the awaited state
    log,        \* register writes of the current call, in program order
    out,        \* result of the last calc_speeds / validate / validate_usb call
    setup_hclk, \* setup's local `hclk`, the target AHB frequency (f32, MHz)
    rtc,        \* the RTC register fields the wakeup functions read and write
    exti,       \* the EXTI line 20 fields set_wakeup writes
    rtc_config, \* Rtc.config: the RtcConfig given to Rtc::new
    rtc_args,   \* the current wakeup call: its name, its sleep_time and the
                \* locals wutr and word of set_wakeup_interval_inner
    pwr,        \* the PWR and SCB fields the low-power functions write
    lp_args,    \* the current low-power call: its name, mode and input_src
    tim,        \* a Timer: its clocks.pclk1, its timeout, and the fields of
                \* its TIM peripheral that start and wait read and write
    tim_args    \* the current Timer call: its name and its timeout

rtcvars == <<rtc, exti, rtc_config, rtc_args>>

lpvars == <<pwr, lp_args>>

timvars == <<tim, tim_args>>

vars == <<cfg, pc, rcc, flash, result, calls, observed, log, out, setup_hclk,
          rtc, exti, rtc_config, rtc_args, pwr, lp_args, tim, tim_args>>

(***************************************************************************)
(* f32 arithmetic.  A non-negative f32 is <<m, e>>, standing for m * 2^e,  *)
(* with m = 0 (zero) or 2^23 <= m < 2^24 (24-bit significand).  Every      *)
(* operation rounds to nearest, ties to even, as IEEE 754 binary32 does.   *)
(* All operands in clocks.rs are unsigned integers converted to f32, so no *)
(* negative value, NaN, infinity or subnormal arises.                      *)
(***************************************************************************)
Pow2(n) == 2 ^ n

F32Zero == <<0, 0>>

RECURSIVE F32Norm(_, _)
\* Shift the significand left until it has 24 bits.
F32Norm(m, e) ==
    IF m = 0 THEN F32Zero
    ELSE IF m >= Pow2(23) THEN <<m, e>>
    ELSE F32Norm(2 * m, e - 1)

\* `n as f32` for an integer 0 <= n < 2^24 (exact).
F32FromInt(n) == F32Norm(n, 0)

\* Round the quotient digits q (24 bits) with remainder r of a division by d.
F32RoundQuot(q, r, d, e) ==
    LET up == (2 * r > d) \/ (2 * r = d /\ q % 2 = 1)
        q1 == IF up THEN q + 1 ELSE q
    IN  IF q1 = Pow2(24) THEN <<Pow2(23), e + 1>> ELSE <<q1, e>>

RECURSIVE F32LongDiv(_, _, _, _)
\* Binary long division: produce quotient bits until there are 24 of them.
F32LongDiv(q, r, d, e) ==
    IF q >= Pow2(23) THEN F32RoundQuot(q, r, d, e)
    ELSE F32LongDiv(2 * q + (IF 2 * r >= d THEN 1 ELSE 0),
                    IF 2 * r >= d THEN 2 * r - d ELSE 2 * r, d, e - 1)

\* a / (d as f32) for an integer 1 <= d < 2^24.
F32DivInt(a, d) ==
    IF a[1] = 0 THEN F32Zero
    ELSE F32LongDiv(a[1] \div d, a[1] % d, d, a[2])

\* a * (n as f32) for an integer 0 <= n < 2^8.  The exact product has up to
\* 32 bits; it is held as H * 2^8 + L and rounded to 24 bits.
F32MulInt(a, n) ==
    IF a[1] = 0 \/ n = 0 THEN F32Zero
    ELSE LET A == (a[1] \div Pow2(8)) * n
             B == (a[1] % Pow2(8)) * n
             H == A + (B \div Pow2(8))
             L == B % Pow2(8)
             k == CHOOSE j \in 0..8 :
                     /\ H < Pow2(16 + j)
                     /\ \A i \in 0..(j - 1) : H >= Pow2(16 + i)
             q == H * Pow2(8 - k) + (L \div Pow2(k))
             r == L % Pow2(k)
         IN  F32RoundQuot(q, r, Pow2(k), a[2] + k)

\* The integer part of a (floor), capped at 2^30 for huge values.
F32Floor(a) ==
    IF a[1] = 0 THEN 0
    ELSE IF a[2] >= 0 THEN (IF a[2] > 6 THEN Pow2(30) ELSE a[1] * Pow2(a[2]))
    ELSE IF -a[2] >= 24 THEN 0
    ELSE a[1] \div Pow2(-a[2])

\* Whether a has a non-zero fractional part.
F32HasFrac(a) ==
    /\ a[1] # 0
    /\ a[2] < 0
    /\ (-a[2] >= 24 \/ a[1] % Pow2(-a[2]) # 0)

\* a > c, a < c, a <= c for an integer c.
F32Gt(a, c) == F32Floor(a) > c \/ (F32Floor(a) = c /\ F32HasFrac(a))
F32Lt(a, c) == F32Floor(a) < c
F32Le(a, c) == ~F32Gt(a, c)

\* `a as u8`: truncation toward zero, saturating at 255 (Rust's float-to-int
\* cast; 304.0 becomes 255, not 48).
F32AsU8(a) == IF F32Floor(a) > 255 THEN 255 ELSE F32Floor(a)

(***************************************************************************)
(* f32 arithmetic of rtc.rs.  A sleep time may be negative: a negative f32 *)
(* is <<m, e>> with a negative significand, -2^24 < m <= -2^23.            *)
(***************************************************************************)
RECURSIVE F32RoundWide(_, _, _, _)
\* Round the exact value (H * 2^lbits + L) * 2^e, 0 <= L < 2^lbits, to 24 bits.
F32RoundWide(H, L, lbits, e) ==
    IF H >= Pow2(24) THEN
        F32RoundWide(H \div 2, (H % 2) * Pow2(lbits) + L, lbits + 1, e)
    ELSE IF H < Pow2(23) /\ lbits > 0 THEN
        F32RoundWide(2 * H + (L \div Pow2(lbits - 1)), L % Pow2(lbits - 1), lbits - 1, e)
    ELSE IF H < Pow2(23) THEN F32Norm(H, e)
    ELSE F32RoundQuot(H, L, Pow2(lbits), e + lbits)

\* a * b for two non-negative f32.  The exact 48-bit product is assembled
\* from 12-bit limbs as Htop * 2^24 + L1 * 2^12 + L0 and rounded once.
F32Mul(a, b) ==
    IF a[1] = 0 \/ b[1] = 0 THEN F32Zero
    ELSE LET ah == a[1] \div Pow2(12)
             al == a[1] % Pow2(12)
             bh == b[1] \div Pow2(12)
             bl == b[1] % Pow2(12)
             low == al * bl
             c1 == (low \div Pow2(12)) + ah * bl + al * bh
             Htop == ah * bh + (c1 \div Pow2(12))
             L == (c1 % Pow2(12)) * Pow2(12) + (low % Pow2(12))
         IN  F32RoundWide(Htop, L, 24, a[2] + b[2])

RECURSIVE F32NormSigned(_, _)
\* Normalise a signed significand of fewer than 25 bits.
F32NormSigned(m, e) ==
    IF m = 0 THEN F32Zero
    ELSE IF m >= Pow2(23) \/ -m >= Pow2(23) THEN <<m, e>>
    ELSE F32NormSigned(2 * m, e - 1)

\* a - (c as f32) for an f32 1 <= a < 2^24 and an integer 0 <= c < 2^17 with
\* c * 2^(-e) < 2^31.  c lies on the grid of a and the difference is smaller
\* in magnitude than 2^24 grid steps, so the result is exact.
F32SubInt(a, c) == F32NormSigned(a[1] - c * Pow2(-a[2]), a[2])

\* a < b for two f32 of either sign.
F32Less(a, b) ==
    IF a[1] = 0 THEN b[1] > 0
    ELSE IF b[1] = 0 THEN a[1] < 0
    ELSE IF a[1] < 0 /\ b[1] > 0 THEN TRUE
    ELSE IF a[1] > 0 /\ b[1] < 0 THEN FALSE
    ELSE IF a[1] > 0 THEN a[2] < b[2] \/ (a[2] = b[2] /\ a[1] < b[1])
    ELSE a[2] > b[2] \/ (a[2] = b[2] /\ a[1] < b[1])

\* Faulty variant: the cast rounds to the nearest integer.
F32AsU16_Nearest(a) ==
    IF a[1] <= 0 THEN 0
    ELSE LET r == IF a[2] >= 0 THEN a[1] * Pow2(a[2])
                  ELSE IF -a[2] > 24 THEN 0
                  ELSE (a[1] + Pow2(-a[2] - 1)) \div Pow2(-a[2])
         IN  IF r > 65535 THEN 65535 ELSE r

\* `a as u16`: truncation toward zero, saturating at 0 and at 65535.
F32AsU16(a) ==
    IF a[1] <= 0 THEN 0
    ELSE IF F32Floor(a) > 65535 THEN 65535 ELSE F32Floor(a)


(***************************************************************************)
(* Enumerations of clocks.rs.  A variant is its name; value() and the      *)
(* `as u8` discriminants are the tables of the source.                     *)
(***************************************************************************)
\* Faulty variant: Range4 continues the doubling (1.6 MHz instead of 1 MHz).
MsiRangeValue_Range4Doubled(range) ==
    CASE range = 0 -> 100000
      [] range = 1 -> 200000
      [] range = 2 -> 400000
      [] range = 3 -> 800000
      [] range = 4 -> 1600000
      [] range = 5 -> 2000000
      [] range = 6 -> 4000000
      [] range = 7 -> 8000000
      [] range = 8 -> 16000000
      [] range = 9 -> 24000000
      [] range = 10 -> 32000000
      [] range = 11 -> 48000000

\* MsiRange::value, in Hz; a range is its discriminant 0..11.
MsiRangeValue(range) ==
    CASE range = 0 -> 100000
      [] range = 1 -> 200000
      [] range = 2 -> 400000
      [] range = 3 -> 800000
      [] range = 4 -> 1000000
      [] range = 5 -> 2000000
      [] range = 6 -> 4000000
      [] range = 7 -> 8000000
      [] range = 8 -> 16000000
      [] range = 9 -> 24000000
      [] range = 10 -> 32000000
      [] range = 11 -> 48000000

PllmValue(p) ==
    CASE p = "Div1" -> 1 [] p = "Div2" -> 2 [] p = "Div3" -> 3 [] p = "Div4" -> 4
      [] p = "Div5" -> 5 [] p = "Div6" -> 6 [] p = "Div7" -> 7 [] p = "Div8" -> 8

PllmBits(p) ==
    CASE p = "Div1" -> 0 [] p = "Div2" -> 1 [] p = "Div3" -> 2 [] p = "Div4" -> 3
      [] p = "Div5" -> 4 [] p = "Div6" -> 5 [] p = "Div7" -> 6 [] p = "Div8" -> 7

PllrValue(p) ==
    CASE p = "Div2" -> 2 [] p = "Div4" -> 4 [] p = "Div6" -> 6 [] p = "Div8" -> 8

PllrBits(p) ==
    CASE p = "Div2" -> 0 [] p = "Div4" -> 1 [] p = "Div6" -> 2 [] p = "Div8" -> 3

HclkPrescalerValue(p) ==
    CASE p = "Div1" -> 1 [] p = "Div2" -> 2 [] p = "Div4" -> 4 [] p = "Div8" -> 8
      [] p = "Div16" -> 16 [] p = "Div64" -> 64 [] p = "Div128" -> 128
      [] p = "Div256" -> 256 [] p = "Div512" -> 512

HclkPrescalerBits(p) ==
    CASE p = "Div1" -> 0 [] p = "Div2" -> 8 [] p = "Div4" -> 9 [] p = "Div8" -> 10
      [] p = "Div16" -> 11 [] p = "Div64" -> 12 [] p = "Div128" -> 13
      [] p = "Div256" -> 14 [] p = "Div512" -> 15

ApbPrescalerValue(p) ==
    CASE p = "Div1" -> 1 [] p = "Div2" -> 2 [] p = "Div4" -> 4 [] p = "Div8" -> 8
      [] p = "Div16" -> 16

ApbPrescalerBits(p) ==
    CASE p = "Div1" -> 0 [] p = "Div2" -> 4 [] p = "Div4" -> 5 [] p = "Div8" -> 6
      [] p = "Div16" -> 7

Clk48SrcBits(c) ==
    CASE c = "Hsi48" -> 0 [] c = "PllSai1" -> 1 [] c = "Pll" -> 2 [] c = "Msi" -> 3

\* PllSrc: [kind, arg]; arg is the MSI range or the HSE frequency in MHz.
PllSrcNone == [kind |-> "None", arg |-> 0]
PllSrcMsi(range) == [kind |-> "Msi", arg |-> range]
PllSrcHsi == [kind |-> "Hsi", arg |-> 0]
PllSrcHse(freq) == [kind |-> "Hse", arg |-> freq]

PllSrcBits(s) ==
    CASE s.kind = "None" -> 0 [] s.kind = "Msi" -> 1
      [] s.kind = "Hsi" -> 2 [] s.kind = "Hse" -> 3

\* InputSrc: [kind, arg, pll]; pll is the payload of the Pll variant.
InputSrcMsi(range) == [kind |-> "Msi", arg |-> range, pll |-> PllSrcNone]
InputSrcHsi == [kind |-> "Hsi", arg |-> 0, pll |-> PllSrcNone]
InputSrcHse(freq) == [kind |-> "Hse", arg |-> freq, pll |-> PllSrcNone]
InputSrcPll(pll_src) == [kind |-> "Pll", arg |-> 0, pll |-> pll_src]

InputSrcBits(s) ==
    CASE s.kind = "Msi" -> 0 [] s.kind = "Hsi" -> 1
      [] s.kind = "Hse" -> 2 [] s.kind = "Pll" -> 3

(***************************************************************************)
(* Frequency calculation and validation.  Speeds are f32 values, in MHz.   *)
(***************************************************************************)
\* Faulty variant: the division by PLLR left out of the PLL output.
calc_sysclock_NoPllr(input_src, pllm, pll_vco_mul, pllr) ==
    IF input_src.kind = "Pll" THEN
        LET pll_src == input_src.pll
            input_freq ==
                CASE pll_src.kind = "Msi" ->
                        F32DivInt(F32FromInt(MsiRangeValue(pll_src.arg)), 1000000)
                  [] pll_src.kind = "Hsi" -> F32FromInt(16)
                  [] pll_src.kind = "Hse" -> F32FromInt(pll_src.arg)
                  [] pll_src.kind = "None" -> F32Zero
        IN  <<input_freq,
              F32MulInt(F32DivInt(input_freq, PllmValue(pllm)), pll_vco_mul)>>
    ELSE
        LET input_freq ==
                CASE input_src.kind = "Msi" ->
                        F32DivInt(F32FromInt(MsiRangeValue(input_src.arg)), 1000000)
                  [] input_src.kind = "Hsi" -> F32FromInt(16)
                  [] input_src.kind = "Hse" -> F32FromInt(input_src.arg)
        IN  <<input_freq, input_freq>>

\* calc_sysclock: <<input_freq, sysclk>>.
calc_sysclock(input_src, pllm, pll_vco_mul, pllr) ==
    IF input_src.kind = "Pll" THEN
        LET pll_src == input_src.pll
            input_freq ==
                CASE pll_src.kind = "Msi" ->
                        F32DivInt(F32FromInt(MsiRangeValue(pll_src.arg)), 1000000)
                  [] pll_src.kind = "Hsi" -> F32FromInt(16)
                  [] pll_src.kind = "Hse" -> F32FromInt(pll_src.arg)
                  [] pll_src.kind = "None" -> F32Zero
        IN  <<input_freq,
              F32DivInt(F32MulInt(F32DivInt(input_freq, PllmValue(pllm)), pll_vco_mul),
                        PllrValue(pllr))>>
    ELSE
        LET input_freq ==
                CASE input_src.kind = "Msi" ->
                        F32DivInt(F32FromInt(MsiRangeValue(input_src.arg)), 1000000)
                  [] input_src.kind = "Hsi" -> F32FromInt(16)
                  [] input_src.kind = "Hse" -> F32FromInt(input_src.arg)
        IN  <<input_freq, input_freq>>

\* Faulty variant: the APB clocks divided down from sysclk, not from hclk.
Clocks_calc_speeds_ApbFromSysclk(self) ==
    LET cs == calc_sysclock(self.input_src, self.pllm, self.pll_vco_mul, self.pllr)
        input_freq == cs[1]
        sysclk == cs[2]
        usb == F32DivInt(F32MulInt(F32DivInt(input_freq, PllmValue(self.pllm)),
                                   self.pll_sai1_mul), 2)
        hclk == F32DivInt(sysclk, HclkPrescalerValue(self.hclk_prescaler))
        pclk1 == F32DivInt(sysclk, ApbPrescalerValue(self.apb1_prescaler))
        timer1 == IF self.apb1_prescaler = "Div1" THEN pclk1 ELSE F32MulInt(pclk1, 2)
        pclk2 == F32DivInt(sysclk, ApbPrescalerValue(self.apb2_prescaler))
        timer2 == IF self.apb2_prescaler = "Div1" THEN pclk2 ELSE F32MulInt(pclk2, 2)
    IN  [sysclk |-> sysclk, usb |-> usb, hclk |-> hclk, systick |-> hclk,
         fclk |-> hclk, pclk1 |-> pclk1, timer1 |-> timer1, pclk2 |-> pclk2,
         timer2 |-> timer2]

\* Faulty variant: the timer clocks doubled whatever the APB prescaler is.
Clocks_calc_speeds_TimerDoubled(self) ==
    LET cs == calc_sysclock(self.input_src, self.pllm, self.pll_vco_mul, self.pllr)
        input_freq == cs[1]
        sysclk == cs[2]
        usb == F32DivInt(F32MulInt(F32DivInt(input_freq, PllmValue(self.pllm)),
                                   self.pll_sai1_mul), 2)
        hclk == F32DivInt(sysclk, HclkPrescalerValue(self.hclk_prescaler))
        pclk1 == F32DivInt(hclk, ApbPrescalerValue(self.apb1_prescaler))
        timer1 == F32MulInt(pclk1, 2)
        pclk2 == F32DivInt(hclk, ApbPrescalerValue(self.apb2_prescaler))
        timer2 == F32MulInt(pclk2, 2)
    IN  [sysclk |-> sysclk, usb |-> usb, hclk |-> hclk, systick |-> hclk,
         fclk |-> hclk, pclk1 |-> pclk1, timer1 |-> timer1, pclk2 |-> pclk2,
         timer2 |-> timer2]

\* Faulty variant: the USB clock derived only when PLLSAI1 is the 48 MHz source.
Clocks_calc_speeds_UsbIfSelected(self) ==
    LET cs == calc_sysclock(self.input_src, self.pllm, self.pll_vco_mul, self.pllr)
        input_freq == cs[1]
        sysclk == cs[2]
        usb == IF self.clk48_src = "PllSai1"
               THEN F32DivInt(F32MulInt(F32DivInt(input_freq, PllmValue(self.pllm)),
                                        self.pll_sai1_mul), 2)
               ELSE F32Zero
        hclk == F32DivInt(sysclk, HclkPrescalerValue(self.hclk_prescaler))
        pclk1 == F32DivInt(hclk, ApbPrescalerValue(self.apb1_prescaler))
        timer1 == IF self.apb1_prescaler = "Div1" THEN pclk1 ELSE F32MulInt(pclk1, 2)
        pclk2 == F32DivInt(hclk, ApbPrescalerValue(self.apb2_prescaler))
        timer2 == IF self.apb2_prescaler = "Div1" THEN pclk2 ELSE F32MulInt(pclk2, 2)
    IN  [sysclk |-> sysclk, usb |-> usb, hclk |-> hclk, systick |-> hclk,
         fclk |-> hclk, pclk1 |-> pclk1, timer1 |-> timer1, pclk2 |-> pclk2,
         timer2 |-> timer2]

\* Clocks::calc_speeds.
Clocks_calc_speeds(self) ==
    LET cs == calc_sysclock(self.input_src, self.pllm, self.pll_vco_mul, self.pllr)
        input_freq == cs[1]
        sysclk == cs[2]
        usb == F32DivInt(F32MulInt(F32DivInt(input_freq, PllmValue(self.pllm)),
                                   self.pll_sai1_mul), 2)
        hclk == F32DivInt(sysclk, HclkPrescalerValue(self.hclk_prescaler))
        pclk1 == F32DivInt(hclk, ApbPrescalerValue(self.apb1_prescaler))
        timer1 == IF self.apb1_prescaler = "Div1" THEN pclk1 ELSE F32MulInt(pclk1, 2)
        pclk2 == F32DivInt(hclk, ApbPrescalerValue(self.apb2_prescaler))
        timer2 == IF self.apb2_prescaler = "Div1" THEN pclk2 ELSE F32MulInt(pclk2, 2)
    IN  [sysclk |-> sysclk, usb |-> usb, hclk |-> hclk, systick |-> hclk,
         fclk |-> hclk, pclk1 |-> pclk1, timer1 |-> timer1, pclk2 |-> pclk2,
         timer2 |-> timer2]

\* validate(speeds): <<main, usb>>.  The second test reads sysclk in its
\* `< 0.` half, as the source does.
validate(speeds) ==
    LET main ==
            IF \/ (F32Gt(speeds.sysclk, 80) \/ F32Lt(speeds.sysclk, 0))
               \/ (F32Gt(speeds.hclk, 80) \/ F32Lt(speeds.sysclk, 0))
               \/ (F32Gt(speeds.pclk1, 80) \/ F32Lt(speeds.pclk1, 0))
               \/ (F32Gt(speeds.pclk2, 80) \/ F32Lt(speeds.pclk2, 0))
            THEN "NotValid" ELSE "Valid"
        usb == IF F32AsU8(speeds.usb) # 48 THEN "NotValid" ELSE "Valid"
    IN  <<main, usb>>

\* Faulty variant: the upper bound of the VCO multiplier off by one.
Clocks_validate_OffByOne(self) ==
    IF \/ self.pll_vco_mul < 7 \/ self.pll_vco_mul > 87
       \/ self.pll_sai1_mul < 7 \/ self.pll_sai1_mul > 86
       \/ self.pll_sai2_mul < 7 \/ self.pll_sai2_mul > 86
    THEN "NotValid"
    ELSE validate(Clocks_calc_speeds(self))[1]

\* Clocks::validate.
Clocks_validate(self) ==
    IF \/ self.pll_vco_mul < 7 \/ self.pll_vco_mul > 86
       \/ self.pll_sai1_mul < 7 \/ self.pll_sai1_mul > 86
       \/ self.pll_sai2_mul < 7 \/ self.pll_sai2_mul > 86
    THEN "NotValid"
    ELSE validate(Clocks_calc_speeds(self))[1]

\* Faulty variant: the main verdict returned instead of the USB one.
Clocks_validate_usb_WrongField(self) == validate(Clocks_calc_speeds(self))[1]

\* Clocks::validate_usb.
Clocks_validate_usb(self) == validate(Clocks_calc_speeds(self))[2]

\* Clocks::default().
Clocks_default ==
    [input_src |-> InputSrcPll(PllSrcHse(8)), pllm |-> "Div1", pll_vco_mul |-> 20,
     pll_sai1_mul |-> 8, pll_sai2_mul |-> 8, pllr |-> "Div2",
     hclk_prescaler |-> "Div1", apb1_prescaler |-> "Div1", apb2_prescaler |-> "Div1",
     clk48_src |-> "PllSai1", sai1_enabled |-> FALSE, sai2_enabled |-> FALSE,
     hse_bypass |-> FALSE, security_system |-> FALSE]

\* Clocks::hsi_preset().
Clocks_hsi_preset ==
    [input_src |-> InputSrcPll(PllSrcHsi), pllm |-> "Div2", pll_vco_mul |-> 20,
     pll_sai1_mul |-> 8, pll_sai2_mul |-> 8, pllr |-> "Div2",
     hclk_prescaler |-> "Div1", apb1_prescaler |-> "Div1", apb2_prescaler |-> "Div1",
     clk48_src |-> "PllSai1", sai1_enabled |-> FALSE, sai2_enabled |-> FALSE,
     hse_bypass |-> FALSE, security_system |-> FALSE]

(***************************************************************************)
(* The RTC wakeup timer (rtc.rs).                                          *)
(***************************************************************************)
\* RtcConfig::default().
RtcConfig_default ==
    [clock_source |-> "Lsi", async_prescaler |-> 127, sync_prescaler |-> 255,
     bypass_lse_output |-> FALSE]

\* ClockConfig: [kind, division]; division is the payload of One.
ClockConfigOne(division) == [kind |-> "One", division |-> division]
ClockConfigTwo == [kind |-> "Two", division |-> "none"]
ClockConfigThree == [kind |-> "Three", division |-> "none"]

\* Faulty variant: the four division selectors in the opposite order.
WakeupWord_Reversed(clock_cfg) ==
    CASE clock_cfg.kind = "One" ->
            (CASE clock_cfg.division = "Sixteen" -> 3
               [] clock_cfg.division = "Eight" -> 2
               [] clock_cfg.division = "Four" -> 1
               [] clock_cfg.division = "Two" -> 0)
      [] clock_cfg.kind = "Two" -> 4
      [] clock_cfg.kind = "Three" -> 6

\* The `word` of set_wakeup_interval_inner: the WUCKSEL bits of a ClockConfig.
WakeupWord(clock_cfg) ==
    CASE clock_cfg.kind = "One" ->
            (CASE clock_cfg.division = "Sixteen" -> 0
               [] clock_cfg.division = "Eight" -> 1
               [] clock_cfg.division = "Four" -> 2
               [] clock_cfg.division = "Two" -> 3)
      [] clock_cfg.kind = "Two" -> 4
      [] clock_cfg.kind = "Three" -> 6

\* The f32 literal 0.00012207 (16777173 * 2^-37).
MinSleepTime == <<16777173, -37>>

\* Faulty variant: no upper limit, every longer time encoded as ClockConfig::Three.
set_wakeup_interval_inner_NoUpperLimit(config, sleep_time) ==
    LET lfe_freq ==
            CASE config.clock_source = "Lse" -> F32FromInt(32768)
              [] config.clock_source = "Lsi" -> F32FromInt(32000)
              [] config.clock_source = "Hse" -> F32FromInt(250000)
    IN  IF ~F32Less(sleep_time, MinSleepTime) /\ F32Less(sleep_time, F32FromInt(32)) THEN
            LET division ==
                    IF F32Less(sleep_time, F32FromInt(4)) THEN "Two"
                    ELSE IF F32Less(sleep_time, F32FromInt(8)) THEN "Four"
                    ELSE IF F32Less(sleep_time, F32FromInt(16)) THEN "Eight"
                    ELSE "Sixteen"
                div == CASE division = "Two" -> 2 [] division = "Four" -> 4
                         [] division = "Eight" -> 8 [] division = "Sixteen" -> 16
            IN  [panics |-> FALSE,
                 wutr |-> F32SubInt(F32DivInt(F32Mul(sleep_time, lfe_freq), div), 1),
                 word |-> WakeupWord(ClockConfigOne(division))]
        ELSE IF F32Less(sleep_time, F32FromInt(65536)) THEN
            [panics |-> FALSE, wutr |-> sleep_time, word |-> WakeupWord(ClockConfigTwo)]
        ELSE IF F32Less(sleep_time, F32FromInt(131072)) THEN
            [panics |-> FALSE, wutr |-> F32SubInt(sleep_time, 65537),
             word |-> WakeupWord(ClockConfigThree)]
        ELSE [panics |-> FALSE, wutr |-> F32SubInt(sleep_time, 65537),
              word |-> WakeupWord(ClockConfigThree)]

\* The computation of set_wakeup_interval_inner: whether it panics, and its
\* locals `wutr` (f32, before the `as u16` cast) and `word`.
set_wakeup_interval_inner(config, sleep_time) ==
    LET lfe_freq ==
            CASE config.clock_source = "Lse" -> F32FromInt(32768)
              [] config.clock_source = "Lsi" -> F32FromInt(32000)
              [] config.clock_source = "Hse" -> F32FromInt(250000)
    IN  IF ~F32Less(sleep_time, MinSleepTime) /\ F32Less(sleep_time, F32FromInt(32)) THEN
            LET division ==
                    IF F32Less(sleep_time, F32FromInt(4)) THEN "Two"
                    ELSE IF F32Less(sleep_time, F32FromInt(8)) THEN "Four"
                    ELSE IF F32Less(sleep_time, F32FromInt(16)) THEN "Eight"
                    ELSE "Sixteen"
                div == CASE division = "Two" -> 2 [] division = "Four" -> 4
                         [] division = "Eight" -> 8 [] division = "Sixteen" -> 16
            IN  [panics |-> FALSE,
                 wutr |-> F32SubInt(F32DivInt(F32Mul(sleep_time, lfe_freq), div), 1),
                 word |-> WakeupWord(ClockConfigOne(division))]
        ELSE IF F32Less(sleep_time, F32FromInt(65536)) THEN
            [panics |-> FALSE, wutr |-> sleep_time, word |-> WakeupWord(ClockConfigTwo)]
        ELSE IF F32Less(sleep_time, F32FromInt(131072)) THEN
            [panics |-> FALSE, wutr |-> F32SubInt(sleep_time, 65537),
             word |-> WakeupWord(ClockConfigThree)]
        ELSE [panics |-> TRUE, wutr |-> F32Zero, word |-> 0]

\* The RTC registers after Rtc::new, which resets the backup domain: the
\* wakeup timer off, WUTWF set, WUTR at 0xFFFF, write protection on; both
\* alarms off with their write flags set and their registers zero.
ResetRtc ==
    [wpr |-> "locked", wute |-> FALSE, wutie |-> FALSE, wutf |-> FALSE,
     wutwf |-> TRUE, wut |-> 65535, wucksel |-> 0,
     alrae |-> FALSE, alrawf |-> TRUE, alraf |-> FALSE, alrmar |-> <<>>,
     alrbe |-> FALSE, alrbwf |-> TRUE, alrbf |-> FALSE, alrmbr |-> <<>>,
     alraie |-> FALSE, alrbie |-> FALSE, tsie |-> FALSE,
     init |-> FALSE, initf |-> FALSE, fmt |-> FALSE, bkp |-> FALSE,
     tr |-> <<>>, dr |-> <<>>]

\* EXTI lines 20 (RTC wakeup), 18 (RTC alarms) and 19 (timestamp) after
\* reset: masked, no edge selected, nothing pending.
ResetExti ==
    [mr20 |-> FALSE, rtsr20 |-> FALSE, ftsr20 |-> FALSE, pr20 |-> FALSE,
     pr18 |-> FALSE, mr18 |-> FALSE, rtsr18 |-> FALSE, mr19 |-> FALSE,
     rtsr19 |-> FALSE]

\* PWR_CR1.LPMS and SCB.SLEEPDEEP after reset; scr counts nothing, it records
\* whether PWR_SCR has been written.
ResetPwr == [lpms |-> 0, sleepdeep |-> FALSE, scr |-> "none"]

\* A TIM peripheral after reset, not yet owned by a Timer.
ResetTim ==
    [pclk1 |-> 0, timeout |-> 0, cen |-> FALSE, psc |-> 0, arr |-> 65535,
     uif |-> FALSE]

\* No Timer call made yet.
NoTimArgs == [op |-> "none", timeout |-> 0]

\* No low-power call made yet.
NoLpArgs == [op |-> "none", mode |-> "none", input_src |-> "none"]

\* No wakeup call made yet.
NoArgs == [op |-> "none", sleep_time |-> F32Zero, panics |-> FALSE,
           wutr |-> F32Zero, word |-> 0, delay |-> 0, alarm |-> "none",
           time |-> <<>>, event |-> "none", date |-> <<>>]

(***************************************************************************)
(* Hardware.  setup receives the RCC and FLASH register blocks from its    *)
(* caller.  The model starts them either in the state the device leaves    *)
(* reset in (running from the MSI at range 6, everything else off) or in   *)
(* the state it wakes from Stop mode in when it "reverts to HSI after      *)
(* wake" (low_power.rs): HSI16 running and the MSI off.                    *)
(***************************************************************************)
ResetRcc ==
    [msion |-> TRUE, msirdy |-> TRUE, msirange |-> 6, msirgsel |-> FALSE,
     hsion |-> FALSE, hsirdy |-> FALSE, hseon |-> FALSE, hserdy |-> FALSE,
     hsebyp |-> FALSE, csson |-> FALSE,
     pllon |-> FALSE, pllrdy |-> FALSE, pllsai1on |-> FALSE, pllsai1rdy |-> FALSE,
     pllsrc |-> 0, plln |-> 16, pllm |-> 0, pllr |-> 0,
     pllpen |-> FALSE, pllqen |-> FALSE, pllren |-> FALSE,
     pllsai1n |-> 16, pllsai1pen |-> FALSE, pllsai1qen |-> FALSE, pllsai1ren |-> FALSE,
     sw |-> 0, hpre |-> 0, ppre1 |-> 0, ppre2 |-> 0,
     clk48sel |-> 0, hsi48on |-> FALSE, hsi48rdy |-> FALSE]

WokenRcc ==
    [ResetRcc EXCEPT !.msion = FALSE, !.msirdy = FALSE,
                     !.hsion = TRUE, !.hsirdy = TRUE, !.sw = 1]

ResetFlash == [latency |-> 0]

\* Each ready flag follows its enable bit after some delay: the oscillator or
\* PLL starts up (flag rises) or stops (flag falls).
HwPairs ==
    {<<"msion", "msirdy">>, <<"hsion", "hsirdy">>, <<"hseon", "hserdy">>,
     <<"pllon", "pllrdy">>, <<"pllsai1on", "pllsai1rdy">>, <<"hsi48on", "hsi48rdy">>}

Hardware ==
    /\ \E p \in HwPairs :
          /\ rcc[p[2]] # rcc[p[1]]
          /\ rcc' = [rcc EXCEPT ![p[2]] = rcc[p[1]]]
    /\ UNCHANGED <<cfg, pc, flash, result, calls, observed, log, out, setup_hclk, rtcvars, lpvars, timvars>>

(***************************************************************************)
(* Configurations the callers pass.                                        *)
(***************************************************************************)
MaxCalls == 3

\* Configurations for setup: every kind of input source, valid and invalid
\* multipliers, PLLSAI1 on and off, HSI48 selected or not.
SetupSources ==
    {InputSrcMsi(6), InputSrcHsi, InputSrcHse(8), InputSrcPll(PllSrcNone),
     InputSrcPll(PllSrcMsi(6)), InputSrcPll(PllSrcHsi), InputSrcPll(PllSrcHse(8)),
     InputSrcPll(PllSrcHse(12))}

SetupConfigs ==
    {[Clocks_hsi_preset EXCEPT !.input_src = s, !.pll_vco_mul = n,
                               !.sai1_enabled = e, !.clk48_src = k] :
        s \in SetupSources, n \in {20, 87}, e \in BOOLEAN, k \in {"Hsi48", "PllSai1"}}
    \cup {Clocks_default}

\* The discriminants of MsiRange.
MsiRanges == 0..11

\* Configurations for the frequency calculation and the validation.
CalcSources ==
    {InputSrcMsi(6), InputSrcMsi(11), InputSrcHsi, InputSrcHse(8), InputSrcHse(81),
     InputSrcPll(PllSrcNone), InputSrcPll(PllSrcMsi(11)), InputSrcPll(PllSrcHsi),
     InputSrcPll(PllSrcHse(8))}

CalcConfigs ==
    {[Clocks_default EXCEPT !.input_src = s, !.pllm = m, !.pll_vco_mul = n,
                            !.pllr = r, !.pll_sai1_mul = n1, !.pll_sai2_mul = n2,
                            !.hclk_prescaler = h, !.apb1_prescaler = p1,
                            !.apb2_prescaler = p2, !.clk48_src = k] :
        s \in CalcSources, m \in {"Div1", "Div5"}, n \in {6, 7, 20, 50, 86, 87},
        r \in {"Div2", "Div6"}, n1 \in {6, 7, 8, 12, 76, 87}, n2 \in {6, 8, 87},
        h \in {"Div1", "Div2"}, p1 \in {"Div1", "Div2"}, p2 \in {"Div1", "Div4"},
        k \in {"Hsi48", "PllSai1"}}
    \cup {[Clocks_default EXCEPT !.input_src = s] :
            s \in {InputSrcMsi(r) : r \in MsiRanges}
                    \cup {InputSrcPll(PllSrcMsi(r)) : r \in MsiRanges}}

NoOut == [op |-> "none", val |-> "none"]

(***************************************************************************)
(* Clocks::setup, one action per register access.                          *)
(***************************************************************************)
\* The register writes of this call so far, as a set.
Written == {log[i] : i \in 1..Len(log)}

\* Faulty variant: the thresholds compared with < instead of <=.
FlashLatency_Strict(hclk) ==
    IF F32Lt(hclk, 16) THEN 0
    ELSE IF F32Lt(hclk, 32) THEN 1
    ELSE IF F32Lt(hclk, 48) THEN 2
    ELSE IF F32Lt(hclk, 64) THEN 3
    ELSE 4

\* Flash wait states for a target HCLK (Reference manual section 3.3.3).
FlashLatency(hclk) ==
    IF F32Le(hclk, 16) THEN 0
    ELSE IF F32Le(hclk, 32) THEN 1
    ELSE IF F32Le(hclk, 48) THEN 2
    ELSE IF F32Le(hclk, 64) THEN 3
    ELSE 4

\* Faulty variant: setup without its validation guard.
SetupRejectsNever(self) == FALSE

\* The guard at the top of setup: reject when validate() says NotValid.
SetupRejects(self) == Clocks_validate(self) = "NotValid"

\* The HCLK setup computes for the flash wait states.
SetupHclk(self) ==
    LET sysclk == calc_sysclock(self.input_src, self.pllm, self.pll_vco_mul, self.pllr)[2]
    IN  F32DivInt(sysclk, HclkPrescalerValue(self.hclk_prescaler))

\* Entry of setup with a configuration chosen by the caller: the validation
\* guard, then the computation of the local hclk.
SetupEnter ==
    /\ pc \in {"idle", "returned"}
    /\ calls < MaxCalls
    /\ \E c \in SetupConfigs :
          /\ cfg' = c
          /\ IF SetupRejects(c)
             THEN pc' = "returned" /\ result' = "Err" /\ setup_hclk' = setup_hclk
             ELSE pc' = "flash" /\ result' = "none" /\ setup_hclk' = SetupHclk(c)
    /\ calls' = calls + 1
    /\ observed' = {}
    /\ log' = <<>>
    /\ UNCHANGED <<rcc, flash, out, rtcvars, lpvars, timvars>>

SetFlashLatency ==
    /\ pc = "flash"
    /\ flash' = [flash EXCEPT !.latency = FlashLatency(setup_hclk)]
    /\ log' = Append(log, "FLASH_ACR.latency")
    /\ pc' = "osc"
    /\ UNCHANGED <<cfg, rcc, result, calls, observed, out, setup_hclk, rtcvars, lpvars, timvars>>

\* The oscillator the match on input_src turns on: "msi", "hse", "hsi" or "none".
OscEnabled(input_src) ==
    LET k == IF input_src.kind = "Pll" THEN input_src.pll.kind ELSE input_src.kind
    IN  CASE k = "Msi" -> "msi" [] k = "Hse" -> "hse" [] k = "Hsi" -> "hsi"
          [] k = "None" -> "none"

\* The ready flag that match arm polls after the enable, "none" when the arm
\* has no wait loop (the Pll(Msi) and Pll(None) arms).
OscWaitFlag(input_src) ==
    CASE input_src.kind = "Msi" -> "msirdy"
      [] input_src.kind = "Hse" -> "hserdy"
      [] input_src.kind = "Hsi" -> "hsirdy"
      [] input_src.kind = "Pll" ->
            CASE input_src.pll.kind = "Msi" -> "none"
              [] input_src.pll.kind = "Hse" -> "hserdy"
              [] input_src.pll.kind = "Hsi" -> "hsirdy"
              [] input_src.pll.kind = "None" -> "none"

EnableOscillator ==
    /\ pc = "osc"
    /\ LET osc == OscEnabled(cfg.input_src)
           range == IF cfg.input_src.kind = "Pll" THEN cfg.input_src.pll.arg
                    ELSE cfg.input_src.arg
       IN  /\ rcc' = CASE osc = "msi" -> [rcc EXCEPT !.msirange = range,
                                                     !.msirgsel = TRUE, !.msion = TRUE]
                       [] osc = "hse" -> [rcc EXCEPT !.hseon = TRUE]
                       [] osc = "hsi" -> [rcc EXCEPT !.hsion = TRUE]
                       [] osc = "none" -> rcc
           /\ log' = IF osc = "none" THEN log ELSE Append(log, "CR." \o osc \o "on")
    /\ pc' = IF OscWaitFlag(cfg.input_src) = "none" THEN "hsebyp" ELSE "wait_osc"
    /\ UNCHANGED <<cfg, flash, result, calls, observed, out, setup_hclk, rtcvars, lpvars, timvars>>

\* while rcc.cr.read().<flag>().bit_is_clear() {}
WaitOscillator ==
    /\ pc = "wait_osc"
    /\ rcc[OscWaitFlag(cfg.input_src)]
    /\ observed' = observed \cup {OscWaitFlag(cfg.input_src)}
    /\ pc' = "hsebyp"
    /\ UNCHANGED <<cfg, rcc, flash, result, calls, log, out, setup_hclk, rtcvars, lpvars, timvars>>

\* Faulty variant: the PLL block entered whatever the input source is.
SetHseBypass_AlwaysPll ==
    /\ pc = "hsebyp"
    /\ rcc' = [rcc EXCEPT !.hsebyp = cfg.hse_bypass]
    /\ log' = Append(log, "CR.hsebyp")
    /\ pc' = "pll_off"
    /\ UNCHANGED <<cfg, flash, result, calls, observed, out, setup_hclk, rtcvars, lpvars, timvars>>

SetHseBypass ==
    /\ pc = "hsebyp"
    /\ rcc' = [rcc EXCEPT !.hsebyp = cfg.hse_bypass]
    /\ log' = Append(log, "CR.hsebyp")
    /\ pc' = IF cfg.input_src.kind = "Pll" THEN "pll_off" ELSE "cfgr"
    /\ UNCHANGED <<cfg, flash, result, calls, observed, out, setup_hclk, rtcvars, lpvars, timvars>>

PllOff ==
    /\ pc = "pll_off"
    /\ rcc' = [rcc EXCEPT !.pllon = FALSE]
    /\ log' = Append(log, "CR.pllon=0")
    /\ observed' = observed \ {"pllrdy=0", "pllrdy"}
    /\ pc' = "wait_pll_off"
    /\ UNCHANGED <<cfg, flash, result, calls, out, setup_hclk, rtcvars, lpvars, timvars>>

\* Faulty variant: the PLL-stopped poll left out.
PllStoppedNoWait(r) == TRUE

\* Exit condition of `while rcc.cr.read().pllrdy().bit_is_set() {}`.
PllStopped(r) == ~r.pllrdy

WaitPllOff ==
    /\ pc = "wait_pll_off"
    /\ PllStopped(rcc)
    /\ observed' = observed \cup {"pllrdy=0"}
    /\ pc' = "pllcfgr"
    /\ UNCHANGED <<cfg, rcc, flash, result, calls, log, out, setup_hclk, rtcvars, lpvars, timvars>>

WritePllCfgr ==
    /\ pc = "pllcfgr"
    /\ rcc' = [rcc EXCEPT !.pllsrc = PllSrcBits(cfg.input_src.pll),
                          !.plln = cfg.pll_vco_mul,
                          !.pllm = PllmBits(cfg.pllm),
                          !.pllr = PllrBits(cfg.pllr)]
    /\ log' = Append(log, "PLLCFGR.cfg")
    /\ pc' = IF cfg.sai1_enabled THEN "sai1n" ELSE "pll_on"
    /\ UNCHANGED <<cfg, flash, result, calls, observed, out, setup_hclk, rtcvars, lpvars, timvars>>

WriteSai1N ==
    /\ pc = "sai1n"
    /\ rcc' = [rcc EXCEPT !.pllsai1n = cfg.pll_sai1_mul]
    /\ log' = Append(log, "PLLSAI1CFGR.n")
    /\ pc' = "pll_on"
    /\ UNCHANGED <<cfg, flash, result, calls, observed, out, setup_hclk, rtcvars, lpvars, timvars>>

PllOn ==
    /\ pc = "pll_on"
    /\ rcc' = [rcc EXCEPT !.pllon = TRUE]
    /\ log' = Append(log, "CR.pllon=1")
    /\ observed' = observed \ {"pllrdy=0", "pllrdy"}
    /\ pc' = IF cfg.sai1_enabled THEN "sai1_on" ELSE "wait_pll"
    /\ UNCHANGED <<cfg, flash, result, calls, out, setup_hclk, rtcvars, lpvars, timvars>>

Sai1On ==
    /\ pc = "sai1_on"
    /\ rcc' = [rcc EXCEPT !.pllsai1on = TRUE]
    /\ log' = Append(log, "CR.pllsai1on")
    /\ observed' = observed \ {"pllsai1rdy"}
    /\ pc' = "wait_sai1"
    /\ UNCHANGED <<cfg, flash, result, calls, out, setup_hclk, rtcvars, lpvars, timvars>>

\* Exit condition of `while rcc.cr.read().pllsai1rdy().bit_is_clear() {}`.
Sai1Locked(r) == r.pllsai1rdy

WaitSai1 ==
    /\ pc = "wait_sai1"
    /\ Sai1Locked(rcc)
    /\ observed' = observed \cup {"pllsai1rdy"}
    /\ pc' = "wait_pll"
    /\ UNCHANGED <<cfg, rcc, flash, result, calls, log, out, setup_hclk, rtcvars, lpvars, timvars>>

\* Faulty variants: the PLL-lock poll left out; the poll with the polarity of the
\* PLL-stopped loop.
PllLockedNoWait(r) == TRUE
PllLockedInverted(r) == ~r.pllrdy

\* Exit condition of `while rcc.cr.read().pllrdy().bit_is_clear() {}`.
PllLocked(r) == r.pllrdy

WaitPll ==
    /\ pc = "wait_pll"
    /\ PllLocked(rcc)
    /\ observed' = observed \cup {"pllrdy"}
    /\ pc' = "pll_outputs"
    /\ UNCHANGED <<cfg, rcc, flash, result, calls, log, out, setup_hclk, rtcvars, lpvars, timvars>>

EnablePllOutputs ==
    /\ pc = "pll_outputs"
    /\ rcc' = [rcc EXCEPT !.pllpen = TRUE, !.pllqen = TRUE, !.pllren = TRUE]
    /\ log' = Append(log, "PLLCFGR.en")
    /\ pc' = IF cfg.sai1_enabled THEN "sai1_outputs" ELSE "cfgr"
    /\ UNCHANGED <<cfg, flash, result, calls, observed, out, setup_hclk, rtcvars, lpvars, timvars>>

EnableSai1Outputs ==
    /\ pc = "sai1_outputs"
    /\ rcc' = [rcc EXCEPT !.pllsai1pen = TRUE, !.pllsai1qen = TRUE,
                          !.pllsai1ren = TRUE]
    /\ log' = Append(log, "PLLSAI1CFGR.en")
    /\ pc' = "cfgr"
    /\ UNCHANGED <<cfg, flash, result, calls, observed, out, setup_hclk, rtcvars, lpvars, timvars>>

\* The one rcc.cfgr.modify of setup: SW and the three prescalers.
WriteCfgr ==
    /\ pc = "cfgr"
    /\ rcc' = [rcc EXCEPT !.sw = InputSrcBits(cfg.input_src),
                          !.hpre = HclkPrescalerBits(cfg.hclk_prescaler),
                          !.ppre2 = ApbPrescalerBits(cfg.apb2_prescaler),
                          !.ppre1 = ApbPrescalerBits(cfg.apb1_prescaler)]
    /\ log' = Append(log, "CFGR")
    /\ pc' = "csson"
    /\ UNCHANGED <<cfg, flash, result, calls, observed, out, setup_hclk, rtcvars, lpvars, timvars>>

SetCss ==
    /\ pc = "csson"
    /\ rcc' = [rcc EXCEPT !.csson = cfg.security_system]
    /\ log' = Append(log, "CR.csson")
    /\ pc' = "clk48"
    /\ UNCHANGED <<cfg, flash, result, calls, observed, out, setup_hclk, rtcvars, lpvars, timvars>>

\* Faulty variant: the HSI48 turned on whatever the selector is.
NeedsHsi48Always(self) == TRUE

\* Whether setup turns the HSI48 on after selecting the 48 MHz clock.
NeedsHsi48(self) == self.clk48_src = "Hsi48"

WriteClk48 ==
    /\ pc = "clk48"
    /\ rcc' = [rcc EXCEPT !.clk48sel = Clk48SrcBits(cfg.clk48_src)]
    /\ log' = Append(log, "CCIPR.clk48sel")
    /\ IF NeedsHsi48(cfg)
       THEN pc' = "hsi48_on" /\ result' = result
       ELSE pc' = "returned" /\ result' = "Ok"
    /\ UNCHANGED <<cfg, flash, calls, observed, out, setup_hclk, rtcvars, lpvars, timvars>>

Hsi48On ==
    /\ pc = "hsi48_on"
    /\ rcc' = [rcc EXCEPT !.hsi48on = TRUE]
    /\ log' = Append(log, "CRRCR.hsi48on")
    /\ observed' = observed \ {"hsi48rdy"}
    /\ pc' = "wait_hsi48"
    /\ UNCHANGED <<cfg, flash, result, calls, out, setup_hclk, rtcvars, lpvars, timvars>>

WaitHsi48 ==
    /\ pc = "wait_hsi48"
    /\ rcc.hsi48rdy
    /\ observed' = observed \cup {"hsi48rdy"}
    /\ pc' = "returned"
    /\ result' = "Ok"
    /\ UNCHANGED <<cfg, rcc, flash, calls, log, out, setup_hclk, rtcvars, lpvars, timvars>>

SetupStep ==
    \/ SetFlashLatency \/ EnableOscillator \/ WaitOscillator \/ SetHseBypass
    \/ PllOff \/ WaitPllOff \/ WritePllCfgr \/ WriteSai1N \/ PllOn \/ Sai1On
    \/ WaitSai1 \/ WaitPll \/ EnablePllOutputs \/ EnableSai1Outputs
    \/ WriteCfgr \/ SetCss \/ WriteClk48 \/ Hsi48On \/ WaitHsi48

Init ==
    /\ cfg = Clocks_default
    /\ pc = "idle"
    /\ rcc \in {ResetRcc, WokenRcc}
    /\ flash = ResetFlash
    /\ result = "none"
    /\ calls = 0
    /\ observed = {}
    /\ log = <<>>
    /\ out = NoOut
    /\ setup_hclk = F32Zero
    /\ rtc = ResetRtc
    /\ exti = ResetExti
    /\ rtc_config = RtcConfig_default
    /\ rtc_args = NoArgs
    /\ pwr = ResetPwr
    /\ lp_args = NoLpArgs
    /\ tim = ResetTim
    /\ tim_args = NoTimArgs

Next == SetupEnter \/ SetupStep \/ Hardware

Spec == Init /\ [][Next]_vars

\* Every poll loop keeps running and every started oscillator or PLL
\* eventually raises (a stopped one drops) its ready flag.
FairSpec == Spec /\ WF_vars(SetupStep) /\ WF_vars(Hardware)

(***************************************************************************)
(* The pure functions, applied to configurations drawn from CalcConfigs.   *)
(***************************************************************************)
CallCalcSpeeds ==
    /\ pc = "calc"
    /\ out' = [op |-> "calc_speeds", val |-> Clocks_calc_speeds(cfg)]
    /\ pc' = "called"
    /\ UNCHANGED <<cfg, rcc, flash, result, calls, observed, log, setup_hclk, rtcvars, lpvars, timvars>>

CallValidate ==
    /\ pc = "calc"
    /\ out' = [op |-> "validate", val |-> Clocks_validate(cfg)]
    /\ pc' = "called"
    /\ UNCHANGED <<cfg, rcc, flash, result, calls, observed, log, setup_hclk, rtcvars, lpvars, timvars>>

CallValidateUsb ==
    /\ pc = "calc"
    /\ out' = [op |-> "validate_usb", val |-> Clocks_validate_usb(cfg)]
    /\ pc' = "called"
    /\ UNCHANGED <<cfg, rcc, flash, result, calls, observed, log, setup_hclk, rtcvars, lpvars, timvars>>

\* MsiRange::value applied to the range of an MSI-driven configuration, as
\* calc_sysclock applies it.
CallMsiRangeValue ==
    /\ pc = "calc"
    /\ \/ cfg.input_src.kind = "Msi"
       \/ (cfg.input_src.kind = "Pll" /\ cfg.input_src.pll.kind = "Msi")
    /\ LET range == IF cfg.input_src.kind = "Msi" THEN cfg.input_src.arg
                    ELSE cfg.input_src.pll.arg
       IN  out' = [op |-> "msi_value",
                   val |-> [range |-> range, value |-> MsiRangeValue(range)]]
    /\ pc' = "called"
    /\ UNCHANGED <<cfg, rcc, flash, result, calls, observed, log, setup_hclk, rtcvars, lpvars, timvars>>

InitCalc ==
    /\ cfg \in CalcConfigs
    /\ pc = "calc"
    /\ rcc = ResetRcc
    /\ flash = ResetFlash
    /\ result = "none"
    /\ calls = 0
    /\ observed = {}
    /\ log = <<>>
    /\ out = NoOut
    /\ setup_hclk = F32Zero
    /\ rtc = ResetRtc
    /\ exti = ResetExti
    /\ rtc_config = RtcConfig_default
    /\ rtc_args = NoArgs
    /\ pwr = ResetPwr
    /\ lp_args = NoLpArgs
    /\ tim = ResetTim
    /\ tim_args = NoTimArgs

NextCalc == CallCalcSpeeds \/ CallValidate \/ CallValidateUsb \/ CallMsiRangeValue

SpecCalc == InitCalc /\ [][NextCalc]_vars

(***************************************************************************)
(* Rtc::set_wakeup and Rtc::set_wakeup_interval, one step per register     *)
(* access.  CR and WUTR are write protected: a write takes effect only     *)
(* after the key sequence 0xCA, 0x53 in WPR; WUTR accepts a write only     *)
(* while WUTWF is set, WUCKSEL only while WUTE is clear and WUTWF is set.  *)
(***************************************************************************)
\* The sleep times the callers pass, as f32.
SleepTimes ==
    {<<-8388608, -23>>,  \* -1.0
     <<0, 0>>,           \* 0.0
     <<13743895, -38>>,  \* 0.00005
     <<16777172, -37>>,  \* the f32 just below 0.00012207
     <<16777173, -37>>,  \* 0.00012207
     <<10995116, -36>>,  \* 0.00016
     <<8388608, -24>>,   \* 0.5
     <<8388608, -23>>,   \* 1.0
     <<16776797, -22>>,  \* 3.9999
     <<8388608, -21>>,   \* 4.0
     <<15728640, -21>>,  \* 7.5
     <<8388608, -20>>,   \* 8.0
     <<16766730, -20>>,  \* 15.99
     <<8388608, -19>>,   \* 16.0
     <<16771973, -19>>,  \* 31.99
     <<8388608, -18>>,   \* 32.0
     <<10485760, -18>>,  \* 40.0
     <<10616832, -18>>,  \* 40.5
     <<16777088, -8>>,   \* 65535.5
     <<8388608, -7>>,    \* 65536.0
     <<8388736, -7>>,    \* 65537.0
     <<8960000, -7>>,    \* 70000.0
     <<16777215, -7>>,   \* 131071.99
     <<8388608, -6>>,    \* 131072.0
     <<12800000, -6>>}   \* 200000.0

\* The argument and the locals of a wakeup call.  The locals depend on the
\* argument and on self.config only and are computed here, once.
WakeupArgs(op, sleep_time) ==
    LET inner == set_wakeup_interval_inner(rtc_config, sleep_time)
    IN  [op |-> op, sleep_time |-> sleep_time, panics |-> inner.panics,
         wutr |-> inner.wutr, word |-> inner.word, delay |-> 0,
         alarm |-> "none", time |-> <<>>, event |-> "none", date |-> <<>>]

SetWakeupEnter ==
    /\ pc \in {"idle", "returned"}
    /\ calls < MaxCalls
    /\ \E t \in SleepTimes : rtc_args' = WakeupArgs("set_wakeup", t)
    /\ pc' = "exti_imr"
    /\ calls' = calls + 1
    /\ observed' = IF rtc.wute THEN {"entry.wute"} ELSE {}
    /\ log' = <<>>
    /\ UNCHANGED <<cfg, rcc, flash, result, out, setup_hclk, rtc, exti, rtc_config, lpvars, timvars>>

SetWakeupIntervalEnter ==
    /\ pc \in {"idle", "returned"}
    /\ calls < MaxCalls
    /\ \E t \in SleepTimes : rtc_args' = WakeupArgs("set_wakeup_interval", t)
    /\ pc' = "wpr_ca"
    /\ calls' = calls + 1
    /\ observed' = IF rtc.wute THEN {"entry.wute"} ELSE {}
    /\ log' = <<>>
    /\ UNCHANGED <<cfg, rcc, flash, result, out, setup_hclk, rtc, exti, rtc_config, lpvars, timvars>>

ExtiUnmask ==
    /\ pc = "exti_imr"
    /\ exti' = [exti EXCEPT !.mr20 = TRUE]
    /\ log' = Append(log, "EXTI.imr1")
    /\ pc' = "exti_rtsr"
    /\ UNCHANGED <<cfg, rcc, flash, result, calls, observed, out, setup_hclk,
                   rtc, rtc_config, lpvars, timvars, rtc_args>>

ExtiRising ==
    /\ pc = "exti_rtsr"
    /\ exti' = [exti EXCEPT !.rtsr20 = TRUE]
    /\ log' = Append(log, "EXTI.rtsr1")
    /\ pc' = "exti_ftsr"
    /\ UNCHANGED <<cfg, rcc, flash, result, calls, observed, out, setup_hclk,
                   rtc, rtc_config, lpvars, timvars, rtc_args>>

ExtiFalling ==
    /\ pc = "exti_ftsr"
    /\ exti' = [exti EXCEPT !.ftsr20 = FALSE]
    /\ log' = Append(log, "EXTI.ftsr1")
    /\ pc' = "wpr_ca"
    /\ UNCHANGED <<cfg, rcc, flash, result, calls, observed, out, setup_hclk,
                   rtc, rtc_config, lpvars, timvars, rtc_args>>

\* The first key: protection stays (or becomes) active until the second key.
WprWriteCA ==
    /\ pc = "wpr_ca"
    /\ rtc' = [rtc EXCEPT !.wpr = "key1"]
    /\ log' = Append(log, "WPR.0xCA")
    /\ pc' = "wpr_53"
    /\ UNCHANGED <<cfg, rcc, flash, result, calls, observed, out, setup_hclk,
                   exti, rtc_config, lpvars, timvars, rtc_args>>

WprWrite53 ==
    /\ pc = "wpr_53"
    /\ rtc' = [rtc EXCEPT !.wpr = IF @ = "key1" THEN "unlocked" ELSE "locked"]
    /\ log' = Append(log, "WPR.0x53")
    /\ pc' = "wute_clear"
    /\ UNCHANGED <<cfg, rcc, flash, result, calls, observed, out, setup_hclk,
                   exti, rtc_config, lpvars, timvars, rtc_args>>

ClearWute ==
    /\ pc = "wute_clear"
    /\ rtc' = [rtc EXCEPT !.wute = IF rtc.wpr = "unlocked" THEN FALSE ELSE @]
    /\ log' = Append(log, "CR.wute=0")
    /\ pc' = "wait_wutwf"
    /\ UNCHANGED <<cfg, rcc, flash, result, calls, observed, out, setup_hclk,
                   exti, rtc_config, lpvars, timvars, rtc_args>>

\* while self.regs.isr.read().wutwf().bit_is_clear() {}
\* A variant that does not poll WUTWF before it goes on.
WaitWutwf_NoPoll ==
    /\ pc = "wait_wutwf"
    /\ pc' = "inner"
    /\ UNCHANGED <<cfg, rcc, flash, result, calls, observed, log, out, setup_hclk,
                   rtcvars, lpvars, timvars>>

WaitWutwf ==
    /\ pc = "wait_wutwf"
    /\ rtc.wutwf
    /\ observed' = observed \cup {"wutwf"}
    /\ pc' = "inner"
    /\ UNCHANGED <<cfg, rcc, flash, result, calls, log, out, setup_hclk, rtcvars, lpvars, timvars>>

\* set_wakeup_interval_inner reaches its panic!(): the caller never resumes.
InnerPanic ==
    /\ pc = "inner"
    /\ rtc_args.panics
    /\ pc' = "panicked"
    /\ UNCHANGED <<cfg, rcc, flash, result, calls, observed, log, out, setup_hclk,
                   rtcvars, lpvars, timvars>>

WriteWutr ==
    /\ pc = "inner"
    /\ ~rtc_args.panics
    /\ rtc' = [rtc EXCEPT !.wut = IF rtc.wpr = "unlocked" /\ rtc.wutwf
                                  THEN F32AsU16(rtc_args.wutr) ELSE @]
    /\ log' = Append(log, "WUTR.wut")
    /\ pc' = "wcksel"
    /\ UNCHANGED <<cfg, rcc, flash, result, calls, observed, out, setup_hclk,
                   exti, rtc_config, lpvars, timvars, rtc_args>>

WriteWucksel ==
    /\ pc = "wcksel"
    /\ rtc' = [rtc EXCEPT !.wucksel =
                  IF rtc.wpr = "unlocked" /\ ~rtc.wute /\ rtc.wutwf
                  THEN rtc_args.word ELSE @]
    /\ log' = Append(log, "CR.wcksel")
    /\ pc' = "wute_set"
    /\ UNCHANGED <<cfg, rcc, flash, result, calls, observed, out, setup_hclk,
                   exti, rtc_config, lpvars, timvars, rtc_args>>

SetWute ==
    /\ pc = "wute_set"
    /\ rtc' = [rtc EXCEPT !.wute = IF rtc.wpr = "unlocked" THEN TRUE ELSE @]
    /\ log' = Append(log, "CR.wute=1")
    /\ pc' = IF rtc_args.op = "set_wakeup" THEN "wutie" ELSE "wpr_ff"
    /\ UNCHANGED <<cfg, rcc, flash, result, calls, observed, out, setup_hclk,
                   exti, rtc_config, lpvars, timvars, rtc_args>>

SetWutie ==
    /\ pc = "wutie"
    /\ rtc' = [rtc EXCEPT !.wutie = IF rtc.wpr = "unlocked" THEN TRUE ELSE @]
    /\ log' = Append(log, "CR.wutie")
    /\ pc' = "wutf_clear"
    /\ UNCHANGED <<cfg, rcc, flash, result, calls, observed, out, setup_hclk,
                   exti, rtc_config, lpvars, timvars, rtc_args>>

\* The flags of ISR are not write protected.
ClearWutf ==
    /\ pc = "wutf_clear"
    /\ rtc' = [rtc EXCEPT !.wutf = FALSE]
    /\ log' = Append(log, "ISR.wutf=0")
    /\ pc' = "wpr_ff"
    /\ UNCHANGED <<cfg, rcc, flash, result, calls, observed, out, setup_hclk,
                   exti, rtc_config, lpvars, timvars, rtc_args>>

WprLock ==
    /\ pc = "wpr_ff"
    /\ rtc' = [rtc EXCEPT !.wpr = "locked"]
    /\ log' = Append(log, "WPR.0xFF")
    /\ pc' = "returned"
    /\ UNCHANGED <<cfg, rcc, flash, result, calls, observed, out, setup_hclk,
                   exti, rtc_config, lpvars, timvars, rtc_args>>

\* The wakeup timer: WUTWF rises some time after WUTE is cleared and falls
\* after WUTE is set; while WUTE is set the counter may reach zero (WUTF).
RtcHardware ==
    /\ \/ rtc.wutwf = rtc.wute /\ rtc' = [rtc EXCEPT !.wutwf = ~rtc.wute]
       \/ rtc.wute /\ ~rtc.wutf /\ rtc' = [rtc EXCEPT !.wutf = TRUE]
    /\ UNCHANGED <<cfg, pc, rcc, flash, result, calls, observed, log, out, setup_hclk,
                   exti, rtc_config, lpvars, timvars, rtc_args>>

RtcStep ==
    \/ ExtiUnmask \/ ExtiRising \/ ExtiFalling
    \/ WprWriteCA \/ WprWrite53 \/ ClearWute \/ WaitWutwf
    \/ InnerPanic \/ WriteWutr \/ WriteWucksel
    \/ SetWute \/ SetWutie \/ ClearWutf \/ WprLock

\* An Rtc built by Rtc::new for any of the three clock sources.
InitRtc ==
    /\ cfg = Clocks_default
    /\ pc = "idle"
    /\ rcc = ResetRcc
    /\ flash = ResetFlash
    /\ result = "none"
    /\ calls = 0
    /\ observed = {}
    /\ log = <<>>
    /\ out = NoOut
    /\ setup_hclk = F32Zero
    /\ rtc = ResetRtc
    /\ exti = ResetExti
    /\ rtc_config \in {[RtcConfig_default EXCEPT !.clock_source = s] :
                          s \in {"Lse", "Lsi", "Hse"}}
    /\ rtc_args = NoArgs
    /\ pwr = ResetPwr
    /\ lp_args = NoLpArgs
    /\ tim = ResetTim
    /\ tim_args = NoTimArgs

NextRtc == SetWakeupEnter \/ SetWakeupIntervalEnter \/ RtcStep \/ RtcHardware

SpecRtc == InitRtc /\ [][NextRtc]_vars

(***************************************************************************)
(* WakeupTimer (start, wait, cancel), Rtc::set_alarm and                   *)
(* Rtc::check_interrupt, one action per register access.  The log of a     *)
(* call also records the reads of ISR that decide a result ("ISR.read")    *)
(* and the flags the hardware raises ("HW.wutf", "HW.alraf", "HW.alrbf").  *)
(***************************************************************************)
\* The delays (seconds, u32) the callers pass to WakeupTimer::start.
Delays == {0, 1, 2, 40, 65536, 65537, 70000, 131071, 131072, 131073}

\* The alarm times the callers pass to set_alarm.
AlarmTimes ==
    {[date |-> 15, hours |-> 12, minutes |-> 34, seconds |-> 56],
     [date |-> 31, hours |-> 23, minutes |-> 59, seconds |-> 9]}

\* fn byte_to_bcd2: the tens digit, and the byte holding both digits.
byte_to_bcd2(byte) == <<byte \div 10, (((byte \div 10) * 16) + (byte % 10)) % 256>>

\* The fields set_alarm writes to ALRMAR / ALRMBR: dt, du, ht, hu, mnt, mnu,
\* st, su, each cut to the width of its field (2, 4, 2, 4, 3, 4, 3, 4 bits),
\* then pm and wdsel (cleared).
AlarmWord(date, time) ==
    LET d == byte_to_bcd2(date)
        h == byte_to_bcd2(time.hours)
        m == byte_to_bcd2(time.minutes)
        sec == byte_to_bcd2(time.seconds)
    IN  <<d[1] % 4, d[2] % 16, h[1] % 4, h[2] % 16, m[1] % 8, m[2] % 16,
          sec[1] % 8, sec[2] % 16, 0, 0>>

\* The arguments of a WakeupTimer or alarm call.
TimerArgs(op, delay, alarm, time) ==
    [NoArgs EXCEPT !.op = op, !.delay = delay, !.alarm = alarm, !.time = time]

\* impl From<Alarm> for Event, and the event WakeupTimer::wait asks for.
EventOf(args) == IF args.op = "wait" THEN "WakeupTimer" ELSE args.alarm

\* What a call finds pending when it is entered.
Pending == {f \in {"wutf", "alraf", "alrbf"} : rtc[f]}

\* The variables no RTC operation touches.
ClockFrame == UNCHANGED <<cfg, rcc, flash, out, setup_hclk, rtc_config, lpvars, timvars>>

\* Faulty variant: the assertion of start admits 2^17 + 1.
StartAccepts_OffByOne(delay) == 1 <= delay /\ delay <= 131072 + 1

\* assert!(1 <= delay && delay <= 1 << 17)
StartAccepts(delay) == 1 <= delay /\ delay <= 131072

\* WakeupTimer::start: a failed assertion panics before any register access;
\* otherwise start calls cancel first.
StartEnter ==
    /\ pc \in {"idle", "returned"}
    /\ calls < MaxCalls
    /\ \E d \in Delays :
          /\ rtc_args' = TimerArgs("start", d, "none", <<>>)
          /\ pc' = IF StartAccepts(d) THEN "c_key1" ELSE "panicked"
    /\ calls' = calls + 1
    /\ observed' = {"entry." \o f : f \in Pending}
    /\ log' = <<>>
    /\ result' = "none"
    /\ UNCHANGED <<rtc, exti>>
    /\ ClockFrame

CancelEnter ==
    /\ pc \in {"idle", "returned"}
    /\ calls < MaxCalls
    /\ rtc_args' = TimerArgs("cancel", 0, "none", <<>>)
    /\ pc' = "c_key1"
    /\ calls' = calls + 1
    /\ observed' = {"entry." \o f : f \in Pending}
    /\ log' = <<>>
    /\ result' = "none"
    /\ UNCHANGED <<rtc, exti>>
    /\ ClockFrame

WaitEnter ==
    /\ pc \in {"idle", "returned"}
    /\ calls < MaxCalls
    /\ rtc_args' = TimerArgs("wait", 0, "none", <<>>)
    /\ pc' = "ci_read"
    /\ calls' = calls + 1
    /\ observed' = {"entry." \o f : f \in Pending}
    /\ log' = <<>>
    /\ result' = "none"
    /\ UNCHANGED <<rtc, exti>>
    /\ ClockFrame

SetAlarmEnter ==
    /\ pc \in {"idle", "returned"}
    /\ calls < MaxCalls
    /\ \E a \in {"AlarmA", "AlarmB"}, t \in AlarmTimes :
          rtc_args' = TimerArgs("set_alarm", 0, a, t)
    /\ pc' = "a_key1"
    /\ calls' = calls + 1
    /\ observed' = {"entry." \o f : f \in Pending}
    /\ log' = <<>>
    /\ result' = "none"
    /\ UNCHANGED <<rtc, exti>>
    /\ ClockFrame

\* edit_regs: the two keys that disable write protection, and the relock.
EditKey1(at, to) ==
    /\ pc = at
    /\ rtc' = [rtc EXCEPT !.wpr = "key1"]
    /\ log' = Append(log, "WPR.0xCA")
    /\ pc' = to
    /\ UNCHANGED <<result, calls, observed, exti, rtc_args>>
    /\ ClockFrame

\* A variant whose second key is not 0x53: protection stays on.
EditKey2_WrongKey(at, to) ==
    /\ pc = at
    /\ rtc' = [rtc EXCEPT !.wpr = "locked"]
    /\ log' = Append(log, "WPR.0x53")
    /\ pc' = to
    /\ UNCHANGED <<result, calls, observed, exti, rtc_args>>
    /\ ClockFrame

EditKey2(at, to) ==
    /\ pc = at
    /\ rtc' = [rtc EXCEPT !.wpr = IF @ = "key1" THEN "unlocked" ELSE "locked"]
    /\ log' = Append(log, "WPR.0x53")
    /\ pc' = to
    /\ UNCHANGED <<result, calls, observed, exti, rtc_args>>
    /\ ClockFrame

EditLock(at, to) ==
    /\ pc = at
    /\ rtc' = [rtc EXCEPT !.wpr = "locked"]
    /\ log' = Append(log, "WPR.0xFF")
    /\ pc' = to
    /\ UNCHANGED <<calls, observed, exti, rtc_args>>
    /\ ClockFrame

\* WakeupTimer::cancel, also the first part of start.
CancelKey1 == EditKey1("c_key1", "c_key2")

CancelKey2 == EditKey2("c_key2", "c_wute")

CancelClearWute ==
    /\ pc = "c_wute"
    /\ rtc' = [rtc EXCEPT !.wute = IF rtc.wpr = "unlocked" THEN FALSE ELSE @]
    /\ log' = Append(log, "CR.wute=0")
    /\ pc' = "c_wutwf"
    /\ UNCHANGED <<result, calls, observed, exti, rtc_args>>
    /\ ClockFrame

\* while rtc.isr.read().wutwf().bit_is_clear() {}
CancelWaitWutwf ==
    /\ pc = "c_wutwf"
    /\ rtc.wutwf
    /\ observed' = observed \cup {"wutwf"}
    /\ pc' = "c_wutf"
    /\ UNCHANGED <<result, calls, log, rtcvars, lpvars, timvars>>
    /\ ClockFrame

\* Faulty variant: cancel leaves the wakeup flag as it is.
CancelClearWutf_Skipped ==
    /\ pc = "c_wutf"
    /\ log' = Append(log, "ISR.wutf=0")
    /\ pc' = "c_lock"
    /\ UNCHANGED <<result, calls, observed, rtcvars, lpvars, timvars>>
    /\ ClockFrame

CancelClearWutf ==
    /\ pc = "c_wutf"
    /\ rtc' = [rtc EXCEPT !.wutf = FALSE]
    /\ log' = Append(log, "ISR.wutf=0")
    /\ pc' = "c_lock"
    /\ UNCHANGED <<result, calls, observed, exti, rtc_args>>
    /\ ClockFrame

\* cancel returns Ok(()); start goes on (self.cancel().unwrap()).
CancelLock ==
    /\ EditLock("c_lock", IF rtc_args.op = "cancel" THEN "returned" ELSE "s_key1")
    /\ result' = IF rtc_args.op = "cancel" THEN "Ok" ELSE result

\* The second part of start.
StartKey1 == EditKey1("s_key1", "s_key2")

StartKey2 == EditKey2("s_key2", "s_wutr")

\* Faulty variant: WUTR receives delay instead of delay - 1.
StartWriteWutr_NoDecrement ==
    /\ pc = "s_wutr"
    /\ rtc' = [rtc EXCEPT !.wut = IF rtc.wpr = "unlocked" /\ rtc.wutwf
                                  THEN rtc_args.delay % 65536 ELSE @]
    /\ log' = Append(log, "WUTR.wut")
    /\ pc' = "s_cr"
    /\ UNCHANGED <<result, calls, observed, exti, rtc_args>>
    /\ ClockFrame

\* let delay = delay - 1; rtc.wutr.write(|w| w.wut().bits(delay as u16))
StartWriteWutr ==
    /\ pc = "s_wutr"
    /\ rtc' = [rtc EXCEPT !.wut = IF rtc.wpr = "unlocked" /\ rtc.wutwf
                                  THEN (rtc_args.delay - 1) % 65536 ELSE @]
    /\ log' = Append(log, "WUTR.wut")
    /\ pc' = "s_cr"
    /\ UNCHANGED <<result, calls, observed, exti, rtc_args>>
    /\ ClockFrame

\* One write of CR carries both WUCKSEL and WUTE.
StartWriteCr ==
    /\ pc = "s_cr"
    /\ LET sel == IF ((rtc_args.delay - 1) \div 65536) % 2 # 0 THEN 6 ELSE 4
       IN  rtc' = IF rtc.wpr = "unlocked"
                  THEN [rtc EXCEPT !.wucksel = IF ~rtc.wute /\ rtc.wutwf
                                               THEN sel ELSE @,
                                   !.wute = TRUE]
                  ELSE rtc
    /\ log' = Append(log, "CR.wcksel+wute=1")
    /\ pc' = "s_lock"
    /\ UNCHANGED <<result, calls, observed, exti, rtc_args>>
    /\ ClockFrame

StartLock == EditLock("s_lock", "s_wutwf") /\ UNCHANGED result

\* while self.rtc.regs.isr.read().wutwf().bit_is_set() {}
StartWaitWutwf ==
    /\ pc = "s_wutwf"
    /\ ~rtc.wutwf
    /\ observed' = observed \cup {"wutwf=0"}
    /\ pc' = "returned"
    /\ UNCHANGED <<result, calls, log, rtcvars, lpvars, timvars>>
    /\ ClockFrame

\* Rtc::set_alarm.
AlarmKey1 == EditKey1("a_key1", "a_key2")

AlarmKey2 == EditKey2("a_key2", "a_disable")

\* The enable bit, the write flag, the alarm flag and the register of an alarm.
AlarmEnableBit(alarm) == IF alarm = "AlarmA" THEN "alrae" ELSE "alrbe"
AlarmWriteFlag(alarm) == IF alarm = "AlarmA" THEN "alrawf" ELSE "alrbwf"
AlarmFlag(alarm) == IF alarm = "AlarmA" THEN "alraf" ELSE "alrbf"
AlarmRegister(alarm) == IF alarm = "AlarmA" THEN "alrmar" ELSE "alrmbr"

AlarmDisable ==
    /\ pc = "a_disable"
    /\ rtc' = [rtc EXCEPT ![AlarmEnableBit(rtc_args.alarm)] =
                  IF rtc.wpr = "unlocked" THEN FALSE ELSE @]
    /\ log' = Append(log, "CR." \o AlarmEnableBit(rtc_args.alarm) \o "=0")
    /\ pc' = "a_wait"
    /\ UNCHANGED <<result, calls, observed, exti, rtc_args>>
    /\ ClockFrame

\* Faulty variant: set_alarm does not wait for the write flag.
AlarmWaitWf_NoWait ==
    /\ pc = "a_wait"
    /\ observed' = observed \cup {AlarmWriteFlag(rtc_args.alarm)}
    /\ pc' = "a_write"
    /\ UNCHANGED <<result, calls, log, rtcvars, lpvars, timvars>>
    /\ ClockFrame

\* while rtc.isr.read().alrawf().bit_is_clear() {}
AlarmWaitWf ==
    /\ pc = "a_wait"
    /\ rtc[AlarmWriteFlag(rtc_args.alarm)]
    /\ observed' = observed \cup {AlarmWriteFlag(rtc_args.alarm)}
    /\ pc' = "a_write"
    /\ UNCHANGED <<result, calls, log, rtcvars, lpvars, timvars>>
    /\ ClockFrame

AlarmWrite ==
    /\ pc = "a_write"
    /\ rtc' = [rtc EXCEPT ![AlarmRegister(rtc_args.alarm)] =
                  IF rtc.wpr = "unlocked" /\ rtc[AlarmWriteFlag(rtc_args.alarm)]
                  THEN AlarmWord(rtc_args.time.date, rtc_args.time) ELSE @]
    /\ log' = Append(log, AlarmRegister(rtc_args.alarm))
    /\ pc' = "a_enable"
    /\ UNCHANGED <<result, calls, observed, exti, rtc_args>>
    /\ ClockFrame

AlarmEnable ==
    /\ pc = "a_enable"
    /\ rtc' = [rtc EXCEPT ![AlarmEnableBit(rtc_args.alarm)] =
                  IF rtc.wpr = "unlocked" THEN TRUE ELSE @]
    /\ log' = Append(log, "CR." \o AlarmEnableBit(rtc_args.alarm) \o "=1")
    /\ pc' = "a_lock"
    /\ UNCHANGED <<result, calls, observed, exti, rtc_args>>
    /\ ClockFrame

\* set_alarm goes on with self.check_interrupt(alarm.into(), true).
AlarmLock == EditLock("a_lock", "ci_read") /\ UNCHANGED result

\* Rtc::check_interrupt(event, true).  The flag of ISR an event stands for.
EventFlag(event) ==
    IF event = "WakeupTimer" THEN "wutf" ELSE AlarmFlag(event)

\* let result = self.regs.isr.read().<flag>().bit_is_set()
CheckRead ==
    /\ pc = "ci_read"
    /\ observed' = observed \cup
          (IF rtc[EventFlag(EventOf(rtc_args))] THEN {"result"} ELSE {})
    /\ log' = Append(log, "ISR.read")
    /\ pc' = "ci_key1"
    /\ UNCHANGED <<result, calls, rtcvars, lpvars, timvars>>
    /\ ClockFrame

CheckKey1 == EditKey1("ci_key1", "ci_key2")

CheckKey2 == EditKey2("ci_key2", "ci_clear")

\* The flags of ISR are not write protected.
CheckClear ==
    /\ pc = "ci_clear"
    /\ rtc' = [rtc EXCEPT ![EventFlag(EventOf(rtc_args))] = FALSE]
    /\ log' = Append(log, "ISR." \o EventFlag(EventOf(rtc_args)) \o "=0")
    /\ pc' = "ci_pr1"
    /\ UNCHANGED <<result, calls, observed, exti, rtc_args>>
    /\ ClockFrame

\* (*EXTI::ptr()).pr1.write(|w| w.bits(1 << 20)) (1 << 18 for the alarms):
\* writing 1 clears the pending bit of that line.
CheckPending ==
    /\ pc = "ci_pr1"
    /\ exti' = IF EventOf(rtc_args) = "WakeupTimer"
               THEN [exti EXCEPT !.pr20 = FALSE]
               ELSE [exti EXCEPT !.pr18 = FALSE]
    /\ log' = Append(log, "EXTI.pr1")
    /\ pc' = "ci_lock"
    /\ UNCHANGED <<result, calls, observed, rtc, rtc_args>>
    /\ ClockFrame

\* Faulty variant: wait reports Ok whatever check_interrupt has read.
CheckLock_AlwaysOk ==
    /\ EditLock("ci_lock", "returned")
    /\ result' = IF rtc_args.op = "wait" THEN "Ok" ELSE result

\* check_interrupt returns what it has read; wait turns it into Ok or
\* WouldBlock, set_alarm drops it.
CheckLock ==
    /\ EditLock("ci_lock", "returned")
    /\ result' = IF rtc_args.op = "wait"
                 THEN (IF "result" \in observed THEN "Ok" ELSE "WouldBlock")
                 ELSE result

\* The wakeup timer: WUTWF rises some time after WUTE is cleared and falls
\* after WUTE is set; a running timer may expire, which raises WUTF and, with
\* the rising edge selected, the pending bit of EXTI line 20.
WakeupHardware ==
    /\ \/ /\ rtc.wutwf = rtc.wute
          /\ rtc' = [rtc EXCEPT !.wutwf = ~rtc.wute]
          /\ UNCHANGED <<log, exti>>
       \/ /\ rtc.wute /\ ~rtc.wutf
          /\ rtc' = [rtc EXCEPT !.wutf = TRUE]
          /\ log' = Append(log, "HW.wutf")
          /\ exti' = [exti EXCEPT !.pr20 = @ \/ exti.rtsr20]
    /\ UNCHANGED <<pc, result, calls, observed, rtc_args>>
    /\ ClockFrame

\* The alarms: the write flag of an alarm rises some time after its enable
\* bit is cleared and falls after it is set; an enabled alarm may match, which
\* raises its flag.
AlarmHardware ==
    /\ \E a \in {"AlarmA", "AlarmB"} :
          \/ /\ rtc[AlarmWriteFlag(a)] = rtc[AlarmEnableBit(a)]
             /\ rtc' = [rtc EXCEPT ![AlarmWriteFlag(a)] = ~rtc[AlarmEnableBit(a)]]
             /\ UNCHANGED log
          \/ /\ rtc[AlarmEnableBit(a)] /\ ~rtc[AlarmFlag(a)]
             /\ rtc' = [rtc EXCEPT ![AlarmFlag(a)] = TRUE]
             /\ log' = Append(log, "HW." \o AlarmFlag(a))
    /\ UNCHANGED <<pc, result, calls, observed, exti, rtc_args>>
    /\ ClockFrame

CheckStep ==
    \/ CheckRead \/ CheckKey1 \/ CheckKey2 \/ CheckClear \/ CheckPending
    \/ CheckLock

TimerStep ==
    \/ CancelKey1 \/ CancelKey2 \/ CancelClearWute \/ CancelWaitWutwf
    \/ CancelClearWutf \/ CancelLock
    \/ StartKey1 \/ StartKey2 \/ StartWriteWutr \/ StartWriteCr \/ StartLock
    \/ StartWaitWutwf

AlarmStep ==
    \/ AlarmKey1 \/ AlarmKey2 \/ AlarmDisable \/ AlarmWaitWf \/ AlarmWrite
    \/ AlarmEnable \/ AlarmLock

\* The wakeup timer driven through WakeupTimer.
NextTimer ==
    \/ StartEnter \/ CancelEnter \/ WaitEnter
    \/ TimerStep \/ CheckStep \/ WakeupHardware

SpecTimer == InitRtc /\ [][NextTimer]_vars

\* The alarms driven through Rtc::set_alarm.
NextAlarm == SetAlarmEnter \/ AlarmStep \/ CheckStep \/ AlarmHardware

SpecAlarm == InitRtc /\ [][NextAlarm]_vars

(***************************************************************************)
(* Rtc::listen, Rtc::unlisten, Rtc::enable_wakeup, Rtc::disable_wakeup and *)
(* Rtc::clear_wakeup_flag, one action per register access.                 *)
(***************************************************************************)
Events == {"WakeupTimer", "AlarmA", "AlarmB", "Timestamp"}

\* The EXTI line listen and unlisten use for an event.
EventLine(event) ==
    CASE event = "WakeupTimer" -> "20"
      [] event = "AlarmA" -> "18"
      [] event = "AlarmB" -> "18"
      [] event = "Timestamp" -> "19"

\* The interrupt enable bit of CR for an event.
EventEnableBit(event) ==
    CASE event = "WakeupTimer" -> "wutie"
      [] event = "AlarmA" -> "alraie"
      [] event = "AlarmB" -> "alrbie"
      [] event = "Timestamp" -> "tsie"

\* The arguments of a call that names an event, or none.
EventArgs(op, event) == [NoArgs EXCEPT !.op = op, !.event = event]

\* The events whose interrupt is enabled in CR: those listen was last called
\* for.
Listening == {e \in Events : rtc[EventEnableBit(e)]}

ListenEnter ==
    /\ pc \in {"idle", "returned"}
    /\ calls < MaxCalls
    /\ \E e \in Events : rtc_args' = EventArgs("listen", e)
    /\ pc' = "ev_key1"
    /\ calls' = calls + 1
    /\ observed' = {}
    /\ log' = <<>>
    /\ result' = "none"
    /\ UNCHANGED <<rtc, exti>>
    /\ ClockFrame

UnlistenEnter ==
    /\ pc \in {"idle", "returned"}
    /\ calls < MaxCalls
    /\ \E e \in Events : rtc_args' = EventArgs("unlisten", e)
    /\ pc' = "ev_key1"
    /\ calls' = calls + 1
    /\ observed' = {"entry." \o e : e \in Listening}
    /\ log' = <<>>
    /\ result' = "none"
    /\ UNCHANGED <<rtc, exti>>
    /\ ClockFrame

ListenKey1 == EditKey1("ev_key1", "ev_key2")

ListenKey2 == EditKey2("ev_key2", "ev_rtsr")

\* exti.rtsr1.modify(|_, w| w.trNN().set_bit()), clear_bit() in unlisten.
ListenRtsr ==
    /\ pc = "ev_rtsr"
    /\ exti' = [exti EXCEPT !["rtsr" \o EventLine(rtc_args.event)] =
                  (rtc_args.op = "listen")]
    /\ log' = Append(log, "EXTI.rtsr1")
    /\ pc' = "ev_imr"
    /\ UNCHANGED <<result, calls, observed, rtc, rtc_args>>
    /\ ClockFrame

\* exti.imr1.modify(|_, w| w.mrNN().set_bit()), clear_bit() in unlisten.
ListenImr ==
    /\ pc = "ev_imr"
    /\ exti' = [exti EXCEPT !["mr" \o EventLine(rtc_args.event)] =
                  (rtc_args.op = "listen")]
    /\ log' = Append(log, "EXTI.imr1")
    /\ pc' = "ev_cr"
    /\ UNCHANGED <<result, calls, observed, rtc, rtc_args>>
    /\ ClockFrame

\* rtc.cr.modify(|_, w| w.<ie>().set_bit()), clear_bit() in unlisten.
ListenCr ==
    /\ pc = "ev_cr"
    /\ rtc' = [rtc EXCEPT ![EventEnableBit(rtc_args.event)] =
                  IF rtc.wpr = "unlocked" THEN (rtc_args.op = "listen") ELSE @]
    /\ log' = Append(log, "CR." \o EventEnableBit(rtc_args.event))
    /\ pc' = "ev_lock"
    /\ UNCHANGED <<result, calls, observed, exti, rtc_args>>
    /\ ClockFrame

ListenLock == EditLock("ev_lock", "returned") /\ UNCHANGED result

EnableWakeupEnter ==
    /\ pc \in {"idle", "returned"}
    /\ calls < MaxCalls
    /\ rtc_args' = EventArgs("enable_wakeup", "none")
    /\ pc' = "wu_key1"
    /\ calls' = calls + 1
    /\ observed' = IF rtc.wute THEN {"entry.wute"} ELSE {}
    /\ log' = <<>>
    /\ result' = "none"
    /\ UNCHANGED <<rtc, exti>>
    /\ ClockFrame

DisableWakeupEnter ==
    /\ pc \in {"idle", "returned"}
    /\ calls < MaxCalls
    /\ rtc_args' = EventArgs("disable_wakeup", "none")
    /\ pc' = "wu_key1"
    /\ calls' = calls + 1
    /\ observed' = IF rtc.wute THEN {"entry.wute"} ELSE {}
    /\ log' = <<>>
    /\ result' = "none"
    /\ UNCHANGED <<rtc, exti>>
    /\ ClockFrame

\* enable_wakeup and disable_wakeup write the keys themselves.
WakeupKey1 == EditKey1("wu_key1", "wu_key2")

WakeupKey2 == EditKey2("wu_key2", "wu_wute")

\* self.regs.cr.modify(|_, w| w.wute().set_bit()), clear_bit() in disable_wakeup.
WakeupWriteWute ==
    /\ pc = "wu_wute"
    /\ rtc' = [rtc EXCEPT !.wute = IF rtc.wpr = "unlocked"
                                   THEN (rtc_args.op = "enable_wakeup") ELSE @]
    /\ log' = Append(log, IF rtc_args.op = "enable_wakeup" THEN "CR.wute=1"
                          ELSE "CR.wute=0")
    /\ pc' = "wu_lock"
    /\ UNCHANGED <<result, calls, observed, exti, rtc_args>>
    /\ ClockFrame

WakeupLock == EditLock("wu_lock", "returned") /\ UNCHANGED result

ClearWakeupFlagEnter ==
    /\ pc \in {"idle", "returned"}
    /\ calls < MaxCalls
    /\ rtc_args' = EventArgs("clear_wakeup_flag", "none")
    /\ pc' = "cf_key1"
    /\ calls' = calls + 1
    /\ observed' = IF rtc.wute THEN {"entry.wute"} ELSE {}
    /\ log' = <<>>
    /\ result' = "none"
    /\ UNCHANGED <<rtc, exti>>
    /\ ClockFrame

ClearFlagKey1 == EditKey1("cf_key1", "cf_key2")

ClearFlagKey2 == EditKey2("cf_key2", "cf_wute0")

\* regs.cr.modify(|_, w| w.wute().clear_bit())
ClearFlagClearWute ==
    /\ pc = "cf_wute0"
    /\ rtc' = [rtc EXCEPT !.wute = IF rtc.wpr = "unlocked" THEN FALSE ELSE @]
    /\ log' = Append(log, "CR.wute=0")
    /\ pc' = "cf_wutf"
    /\ UNCHANGED <<result, calls, observed, exti, rtc_args>>
    /\ ClockFrame

\* regs.isr.modify(|_, w| w.wutf().clear_bit())
ClearFlagClearWutf ==
    /\ pc = "cf_wutf"
    /\ rtc' = [rtc EXCEPT !.wutf = FALSE]
    /\ log' = Append(log, "ISR.wutf=0")
    /\ pc' = "cf_wute1"
    /\ UNCHANGED <<result, calls, observed, exti, rtc_args>>
    /\ ClockFrame

\* regs.cr.modify(|_, w| w.wute().set_bit())
ClearFlagSetWute ==
    /\ pc = "cf_wute1"
    /\ rtc' = [rtc EXCEPT !.wute = IF rtc.wpr = "unlocked" THEN TRUE ELSE @]
    /\ log' = Append(log, "CR.wute=1")
    /\ pc' = "cf_lock"
    /\ UNCHANGED <<result, calls, observed, exti, rtc_args>>
    /\ ClockFrame

ClearFlagLock == EditLock("cf_lock", "returned") /\ UNCHANGED result

EventStep ==
    \/ ListenKey1 \/ ListenKey2 \/ ListenRtsr \/ ListenImr \/ ListenCr
    \/ ListenLock

FlagStep ==
    \/ WakeupKey1 \/ WakeupKey2 \/ WakeupWriteWute \/ WakeupLock
    \/ ClearFlagKey1 \/ ClearFlagKey2 \/ ClearFlagClearWute
    \/ ClearFlagClearWutf \/ ClearFlagSetWute \/ ClearFlagLock

\* Interrupt delivery switched on and off through listen and unlisten.
NextEvents == ListenEnter \/ UnlistenEnter \/ EventStep

SpecEvents == InitRtc /\ [][NextEvents]_vars

(***************************************************************************)
(* The calendar: set_24h_fmt, set_12h_fmt, set_time, set_date and          *)
(* set_date_time, each one edit_regs(true, ..) that enters and leaves      *)
(* initialisation mode around its closure.                                 *)
(***************************************************************************)
CalendarOps ==
    {"set_24h_fmt", "set_12h_fmt", "set_time", "set_date", "set_date_time"}

\* The times and dates the callers pass.
CalendarTimes ==
    {[hours |-> 9, minutes |-> 5, seconds |-> 0, daylight_savings |-> FALSE],
     [hours |-> 23, minutes |-> 59, seconds |-> 58, daylight_savings |-> TRUE]}

CalendarDates == {[day |-> 4, date |-> 5, month |-> 11, year |-> 2026]}

\* The fields set_time_raw writes to TR: ht, hu, mnt, mnu, st, su, each cut to
\* the width of its field (2, 4, 3, 4, 3, 4 bits), then pm (cleared).
TimeWord(time) ==
    LET h == byte_to_bcd2(time.hours)
        m == byte_to_bcd2(time.minutes)
        sec == byte_to_bcd2(time.seconds)
    IN  <<h[1] % 4, h[2] % 16, m[1] % 8, m[2] % 16, sec[1] % 8, sec[2] % 16, 0>>

\* The fields set_date_raw writes to DR: dt, du, mt, mu, yt, yu, wdu; the year
\* is an offset from 1970 cut to a byte.
DateWord(date) ==
    LET d == byte_to_bcd2(date.date)
        m == byte_to_bcd2(date.month)
        y == byte_to_bcd2(((date.year - 1970) % 65536) % 256)
    IN  <<d[1] % 4, d[2] % 16, IF m[1] > 0 THEN 1 ELSE 0, m[2] % 16,
          y[1] % 16, y[2] % 16, date.day % 8>>

CalendarEnter ==
    /\ pc \in {"idle", "returned"}
    /\ calls < MaxCalls
    /\ \/ \E op \in {"set_24h_fmt", "set_12h_fmt"} :
             rtc_args' = [NoArgs EXCEPT !.op = op]
       \/ \E t \in CalendarTimes :
             rtc_args' = [NoArgs EXCEPT !.op = "set_time", !.time = t]
       \/ \E d \in CalendarDates :
             rtc_args' = [NoArgs EXCEPT !.op = "set_date", !.date = d]
       \/ \E t \in CalendarTimes, d \in CalendarDates :
             rtc_args' = [NoArgs EXCEPT !.op = "set_date_time", !.time = t,
                                        !.date = d]
    /\ pc' = "cal_key1"
    /\ calls' = calls + 1
    /\ observed' = {}
    /\ log' = <<>>
    /\ result' = "none"
    /\ UNCHANGED <<rtc, exti>>
    /\ ClockFrame

CalendarKey1 == EditKey1("cal_key1", "cal_key2")

CalendarKey2 == EditKey2("cal_key2", "cal_init")

\* if init_mode && initf clear { isr.modify(init set) ... }
CalendarInit ==
    /\ pc = "cal_init"
    /\ IF ~rtc.initf
       THEN /\ rtc' = [rtc EXCEPT !.init = IF rtc.wpr = "unlocked" THEN TRUE ELSE @]
            /\ log' = Append(log, "ISR.init=1")
            /\ pc' = "cal_initf"
       ELSE /\ pc' = "cal_closure"
            /\ UNCHANGED <<rtc, log>>
    /\ UNCHANGED <<result, calls, observed, exti, rtc_args>>
    /\ ClockFrame

\* while self.regs.isr.read().initf().bit_is_clear() {}
CalendarWaitInitf ==
    /\ pc = "cal_initf"
    /\ rtc.initf
    /\ observed' = observed \cup {"initf"}
    /\ pc' = "cal_closure"
    /\ UNCHANGED <<result, calls, log, rtc, exti, rtc_args>>
    /\ ClockFrame

\* The closure of set_24h_fmt and set_12h_fmt: cr.modify(fmt).
CalendarWriteFmt ==
    /\ pc = "cal_closure"
    /\ rtc_args.op \in {"set_24h_fmt", "set_12h_fmt"}
    /\ rtc' = [rtc EXCEPT !.fmt = IF rtc.wpr = "unlocked" /\ rtc.initf
                                  THEN (rtc_args.op = "set_24h_fmt") ELSE @]
    /\ log' = Append(log, "CR.fmt")
    /\ pc' = "cal_exit"
    /\ UNCHANGED <<result, calls, observed, exti, rtc_args>>
    /\ ClockFrame

\* set_time_raw: rtc.tr.write(..)
CalendarWriteTr ==
    /\ pc = "cal_closure"
    /\ rtc_args.op \in {"set_time", "set_date_time"}
    /\ rtc' = [rtc EXCEPT !.tr = IF rtc.wpr = "unlocked" /\ rtc.initf
                                 THEN TimeWord(rtc_args.time) ELSE @]
    /\ log' = Append(log, "TR")
    /\ pc' = "cal_bkp"
    /\ UNCHANGED <<result, calls, observed, exti, rtc_args>>
    /\ ClockFrame

\* set_time_raw: rtc.cr.modify(|_, w| w.bkp().bit(time.daylight_savings))
CalendarWriteBkp ==
    /\ pc = "cal_bkp"
    /\ rtc' = [rtc EXCEPT !.bkp = IF rtc.wpr = "unlocked"
                                  THEN rtc_args.time.daylight_savings ELSE @]
    /\ log' = Append(log, "CR.bkp")
    /\ pc' = IF rtc_args.op = "set_date_time" THEN "cal_dr" ELSE "cal_exit"
    /\ UNCHANGED <<result, calls, observed, exti, rtc_args>>
    /\ ClockFrame

\* set_date_raw: rtc.dr.write(..)
CalendarWriteDr ==
    /\ \/ pc = "cal_closure" /\ rtc_args.op = "set_date"
       \/ pc = "cal_dr"
    /\ rtc' = [rtc EXCEPT !.dr = IF rtc.wpr = "unlocked" /\ rtc.initf
                                 THEN DateWord(rtc_args.date) ELSE @]
    /\ log' = Append(log, "DR")
    /\ pc' = "cal_exit"
    /\ UNCHANGED <<result, calls, observed, exti, rtc_args>>
    /\ ClockFrame

\* if init_mode { isr.modify(init clear) ... }
CalendarExit ==
    /\ pc = "cal_exit"
    /\ rtc' = [rtc EXCEPT !.init = IF rtc.wpr = "unlocked" THEN FALSE ELSE @]
    /\ log' = Append(log, "ISR.init=0")
    /\ pc' = "cal_exitf"
    /\ UNCHANGED <<result, calls, observed, exti, rtc_args>>
    /\ ClockFrame

\* while self.regs.isr.read().initf().bit_is_set() {}
CalendarWaitExit ==
    /\ pc = "cal_exitf"
    /\ ~rtc.initf
    /\ observed' = observed \cup {"initf=0"}
    /\ pc' = "cal_lock"
    /\ UNCHANGED <<result, calls, log, rtc, exti, rtc_args>>
    /\ ClockFrame

CalendarLock == EditLock("cal_lock", "returned") /\ UNCHANGED result

\* INITF follows INIT after a few clock cycles.
CalendarHardware ==
    /\ rtc.initf # rtc.init
    /\ rtc' = [rtc EXCEPT !.initf = rtc.init]
    /\ UNCHANGED <<pc, result, calls, observed, log, exti, rtc_args>>
    /\ ClockFrame

CalendarStep ==
    \/ CalendarKey1 \/ CalendarKey2 \/ CalendarInit \/ CalendarWaitInitf
    \/ CalendarWriteFmt \/ CalendarWriteTr \/ CalendarWriteBkp
    \/ CalendarWriteDr \/ CalendarExit \/ CalendarWaitExit \/ CalendarLock

(***************************************************************************)
(* Every public operation of Rtc and WakeupTimer in one system, called in  *)
(* any order, with the hardware of the wakeup timer, the alarms and the    *)
(* calendar running beside them.                                           *)
(***************************************************************************)
\* 40.0 and 200000.0 seconds: a duration that is accepted and one that is
\* rejected.
OpsSleepTimes == {<<10485760, -18>>, <<12800000, -6>>}

OpsDelays == {0, 40}

\* The operations called in a row.
MaxOpsCalls == 2

OpsEvents == {"WakeupTimer", "AlarmA"}

OpsTimes == {[hours |-> 9, minutes |-> 5, seconds |-> 0, daylight_savings |-> FALSE]}

OpsAlarmTimes == {[date |-> 15, hours |-> 12, minutes |-> 34, seconds |-> 56]}

\* The calls that begin an operation.
OpsEnter ==
    \/ SetWakeupEnter /\ rtc_args'.sleep_time \in OpsSleepTimes
    \/ SetWakeupIntervalEnter /\ rtc_args'.sleep_time \in OpsSleepTimes
    \/ EnableWakeupEnter \/ DisableWakeupEnter \/ ClearWakeupFlagEnter
    \/ ListenEnter /\ rtc_args'.event \in OpsEvents
    \/ UnlistenEnter /\ rtc_args'.event \in OpsEvents
    \/ StartEnter /\ rtc_args'.delay \in OpsDelays
    \/ CancelEnter \/ WaitEnter
    \/ SetAlarmEnter /\ rtc_args'.time \in OpsAlarmTimes
    \/ CalendarEnter /\ rtc_args'.time \in OpsTimes \cup {<<>>}

NextOps ==
    \/ calls < MaxOpsCalls /\ OpsEnter
    \/ RtcStep \/ TimerStep \/ AlarmStep \/ CheckStep
    \/ EventStep \/ FlagStep \/ CalendarStep
    \/ WakeupHardware \/ AlarmHardware \/ CalendarHardware

SpecOps == InitRtc /\ [][NextOps]_vars

(***************************************************************************)
(* make_wakeup_interrupt_handler: the default handler of the RTC wakeup    *)
(* interrupt.  Its body runs inside free(..) and polls nothing, so the     *)
(* foreground sees it as one step, taken between any two of its own        *)
(* register accesses while the wakeup flag is raised with its interrupt    *)
(* enabled and EXTI line 20 unmasked and set to rising edges.              *)
(***************************************************************************)
WakeupInterruptHandler ==
    /\ rtc.wutf /\ rtc.wutie /\ exti.mr20 /\ exti.rtsr20
    /\ pc # "panicked"
    \* pr1.modify(pr20); wpr 0xCA, 0x53; wute clear; wutf clear; wute set;
    \* wpr 0xFF
    /\ exti' = [exti EXCEPT !.pr20 = FALSE]
    /\ rtc' = [rtc EXCEPT !.wute = TRUE, !.wutf = FALSE, !.wpr = "locked"]
    /\ UNCHANGED <<pc, result, calls, observed, log, rtc_args>>
    /\ ClockFrame

\* The wakeup operations of Rtc in the foreground, the wakeup timer, and the
\* default handler installed for its interrupt.
NextIrq ==
    \/ SetWakeupEnter /\ rtc_args'.sleep_time \in OpsSleepTimes
    \/ SetWakeupIntervalEnter /\ rtc_args'.sleep_time \in OpsSleepTimes
    \/ EnableWakeupEnter \/ DisableWakeupEnter \/ ClearWakeupFlagEnter
    \/ RtcStep \/ FlagStep
    \/ RtcHardware \/ WakeupInterruptHandler

SpecIrq == InitRtc /\ [][NextIrq]_vars

(***************************************************************************)
(* Timer (timer.rs): CountDown::start and CountDown::wait of a Timer       *)
(* built by its constructor, one action per register access, beside the    *)
(* counter of the TIM peripheral.                                          *)
(***************************************************************************)
\* clocks.pclk1() of the Clocks handed to the constructor, in Hz.
TimerPclk1s == {80000000, 32768000}

\* The timeouts the callers pass, in Hz.
Timeouts == {0, 1, 500, 1000, 100000000}

\* let ticks = self.clocks.pclk1().0 / frequency;
Ticks(pclk1, frequency) == pclk1 \div frequency

\* let psc = u16((ticks - 1) / (1 << 16)).unwrap();
TimerPsc(ticks) == (ticks - 1) \div 65536

\* let arr = u16(ticks / u32(psc + 1)).unwrap(); the value before the cast.
TimerArr(ticks, psc) == ticks \div (psc + 1)

\* start runs to its end: the frequency is not 0, ticks is not 0 and arr fits
\* 16 bits.
StartCompletes(pclk1, frequency) ==
    /\ frequency # 0
    /\ Ticks(pclk1, frequency) # 0
    /\ TimerArr(Ticks(pclk1, frequency), TimerPsc(Ticks(pclk1, frequency))) <= 65535

\* The Timer the constructor returns: the peripheral reset, then start(timeout).
ConstructedTim(pclk1, timeout) ==
    LET ticks == Ticks(pclk1, timeout)
    IN  [pclk1 |-> pclk1, timeout |-> timeout, cen |-> TRUE,
         psc |-> TimerPsc(ticks), arr |-> TimerArr(ticks, TimerPsc(ticks)),
         uif |-> FALSE]

TimFrame == UNCHANGED <<cfg, rcc, flash, out, setup_hclk, rtcvars, lpvars>>

CountDownStartEnter ==
    /\ pc \in {"idle", "returned"}
    /\ calls < MaxCalls
    /\ \E t \in Timeouts : tim_args' = [op |-> "start", timeout |-> t]
    /\ pc' = "cd_pause"
    /\ calls' = calls + 1
    /\ observed' = IF tim.uif THEN {"entry.uif"} ELSE {}
    /\ log' = <<>>
    /\ result' = "none"
    /\ UNCHANGED tim
    /\ TimFrame

CountDownWaitEnter ==
    /\ pc \in {"idle", "returned"}
    /\ calls < MaxCalls
    /\ tim_args' = [op |-> "wait", timeout |-> 0]
    /\ pc' = "cdw_read"
    /\ calls' = calls + 1
    /\ observed' = IF tim.uif THEN {"entry.uif"} ELSE {}
    /\ log' = <<>>
    /\ result' = "none"
    /\ UNCHANGED tim
    /\ TimFrame

\* self.tim.cr1.modify(|_, w| w.cen().clear_bit())
CountDownPause ==
    /\ pc = "cd_pause"
    /\ tim' = [tim EXCEPT !.cen = FALSE]
    /\ log' = Append(log, "CR1.cen=0")
    /\ pc' = "cd_psc"
    /\ UNCHANGED <<result, calls, observed, tim_args>>
    /\ TimFrame

\* self.timeout = timeout.into(); ticks and psc are computed and PSC written.
\* A frequency of 0 panics in the division.  With ticks = 0, `ticks - 1`
\* panics in a build with overflow checks and wraps to 2^32 - 1 in one
\* without, which gives psc = 65535.
CountDownWritePsc ==
    /\ pc = "cd_psc"
    /\ LET frequency == tim_args.timeout
           ticks == Ticks(tim.pclk1, frequency)
       IN  \/ /\ frequency = 0
              /\ tim' = [tim EXCEPT !.timeout = frequency]
              /\ pc' = "panicked"
              /\ UNCHANGED log
           \/ /\ frequency # 0 /\ ticks = 0
              /\ tim' = [tim EXCEPT !.timeout = frequency]
              /\ pc' = "panicked"
              /\ UNCHANGED log
           \/ /\ frequency # 0 /\ ticks = 0
              /\ tim' = [tim EXCEPT !.timeout = frequency, !.psc = 65535]
              /\ log' = Append(log, "PSC")
              /\ pc' = "cd_arr"
           \/ /\ frequency # 0 /\ ticks # 0
              /\ tim' = [tim EXCEPT !.timeout = frequency, !.psc = TimerPsc(ticks)]
              /\ log' = Append(log, "PSC")
              /\ pc' = "cd_arr"
    /\ UNCHANGED <<result, calls, observed, tim_args>>
    /\ TimFrame

\* arr is computed and ARR written.  `psc + 1` is a u16 sum: from 65535 it
\* wraps to 0 and the division panics; an arr above 65535 panics in unwrap().
CountDownWriteArr ==
    /\ pc = "cd_arr"
    /\ LET ticks == Ticks(tim.pclk1, tim.timeout)
           divisor == (tim.psc + 1) % 65536
       IN  IF divisor = 0 \/ ticks \div divisor > 65535
           THEN pc' = "panicked" /\ UNCHANGED <<tim, log>>
           ELSE /\ tim' = [tim EXCEPT !.arr = ticks \div divisor]
                /\ log' = Append(log, "ARR")
                /\ pc' = "cd_ug"
    /\ UNCHANGED <<result, calls, observed, tim_args>>
    /\ TimFrame

\* self.tim.egr.write(|w| w.ug().set_bit()): the update event this forces
\* loads the prescaler and raises UIF.
CountDownUpdate ==
    /\ pc = "cd_ug"
    /\ tim' = [tim EXCEPT !.uif = TRUE]
    /\ log' = Append(log, "EGR.ug")
    /\ pc' = "cd_clear"
    /\ UNCHANGED <<result, calls, observed, tim_args>>
    /\ TimFrame

\* A variant that does not clear the flag of the forced update event.
CountDownClearFlag_Skipped ==
    /\ pc = "cd_clear"
    /\ pc' = "cd_enable"
    /\ UNCHANGED <<result, calls, observed, log, tim, tim_args>>
    /\ TimFrame

\* self.clear_update_interrupt_flag()
CountDownClearFlag ==
    /\ pc = "cd_clear"
    /\ tim' = [tim EXCEPT !.uif = FALSE]
    /\ log' = Append(log, "SR.uif=0")
    /\ pc' = "cd_enable"
    /\ UNCHANGED <<result, calls, observed, tim_args>>
    /\ TimFrame

\* self.tim.cr1.modify(|_, w| w.cen().set_bit())
CountDownEnable ==
    /\ pc = "cd_enable"
    /\ tim' = [tim EXCEPT !.cen = TRUE]
    /\ log' = Append(log, "CR1.cen=1")
    /\ pc' = "returned"
    /\ UNCHANGED <<result, calls, observed, tim_args>>
    /\ TimFrame

\* if self.tim.sr.read().uif().bit_is_clear() { Err(nb::Error::WouldBlock) }
CountDownWaitRead ==
    /\ pc = "cdw_read"
    /\ log' = Append(log, "SR.read")
    /\ IF tim.uif
       THEN /\ observed' = observed \cup {"uif"}
            /\ pc' = "cdw_clear"
            /\ UNCHANGED result
       ELSE /\ result' = "WouldBlock"
            /\ pc' = "returned"
            /\ UNCHANGED observed
    /\ UNCHANGED <<calls, tim, tim_args>>
    /\ TimFrame

\* else { self.clear_update_interrupt_flag(); Ok(()) }
CountDownWaitClear ==
    /\ pc = "cdw_clear"
    /\ tim' = [tim EXCEPT !.uif = FALSE]
    /\ log' = Append(log, "SR.uif=0")
    /\ result' = "Ok"
    /\ pc' = "returned"
    /\ UNCHANGED <<calls, observed, tim_args>>
    /\ TimFrame

\* The counter: while it is enabled it reaches ARR some time and the update
\* event raises UIF.
TimHardware ==
    /\ tim.cen /\ ~tim.uif
    /\ tim' = [tim EXCEPT !.uif = TRUE]
    /\ log' = Append(log, "HW.uif")
    /\ UNCHANGED <<pc, result, calls, observed, tim_args>>
    /\ TimFrame

CountDownStep ==
    \/ CountDownPause \/ CountDownWritePsc \/ CountDownWriteArr
    \/ CountDownUpdate \/ CountDownClearFlag \/ CountDownEnable
    \/ CountDownWaitRead \/ CountDownWaitClear

\* A Timer built by its constructor for any clock and any timeout it accepts.
InitCountDown ==
    /\ cfg = Clocks_default
    /\ pc = "idle"
    /\ rcc = ResetRcc
    /\ flash = ResetFlash
    /\ result = "none"
    /\ calls = 0
    /\ observed = {}
    /\ log = <<>>
    /\ out = NoOut
    /\ setup_hclk = F32Zero
    /\ rtc = ResetRtc
    /\ exti = ResetExti
    /\ rtc_config = RtcConfig_default
    /\ rtc_args = NoArgs
    /\ pwr = ResetPwr
    /\ lp_args = NoLpArgs
    /\ \E p \in TimerPclk1s, t \in Timeouts :
          /\ StartCompletes(p, t)
          /\ tim = ConstructedTim(p, t)
    /\ tim_args = NoTimArgs

NextCountDown ==
    CountDownStartEnter \/ CountDownWaitEnter \/ CountDownStep \/ TimHardware

SpecCountDown == InitCountDown /\ [][NextCountDown]_vars

(***************************************************************************)
(* Low-power modes (low_power.rs): stop, standby and shutdown, each ending *)
(* in re_select_input, one action per register access.  The device has     *)
(* been configured by Clocks::setup from `cfg`, and the caller passes the  *)
(* input source of that configuration.                                     *)
(***************************************************************************)
\* The configurations the device runs with when it goes to sleep.
LowPowerConfigs ==
    {[Clocks_hsi_preset EXCEPT !.input_src = s] :
        s \in {InputSrcMsi(6), InputSrcHsi, InputSrcHse(8),
               InputSrcPll(PllSrcMsi(6)), InputSrcPll(PllSrcHsi),
               InputSrcPll(PllSrcHse(8))}}

\* The RCC registers a successful Clocks::setup(self) leaves when it starts
\* from the reset state.
ConfiguredRcc(self) ==
    LET src == self.input_src
        osc == OscEnabled(src)
        r1 == CASE osc = "msi" ->
                     [ResetRcc EXCEPT !.msirange = IF src.kind = "Pll" THEN src.pll.arg
                                                   ELSE src.arg,
                                      !.msirgsel = TRUE]
                [] osc = "hse" -> [ResetRcc EXCEPT !.hseon = TRUE, !.hserdy = TRUE]
                [] osc = "hsi" -> [ResetRcc EXCEPT !.hsion = TRUE, !.hsirdy = TRUE]
                [] osc = "none" -> ResetRcc
        r2 == IF src.kind = "Pll"
              THEN [r1 EXCEPT !.pllsrc = PllSrcBits(src.pll),
                              !.plln = self.pll_vco_mul,
                              !.pllm = PllmBits(self.pllm),
                              !.pllr = PllrBits(self.pllr),
                              !.pllon = TRUE, !.pllrdy = TRUE,
                              !.pllpen = TRUE, !.pllqen = TRUE, !.pllren = TRUE]
              ELSE r1
    IN  [r2 EXCEPT !.hsebyp = self.hse_bypass,
                   !.sw = InputSrcBits(src),
                   !.hpre = HclkPrescalerBits(self.hclk_prescaler),
                   !.ppre1 = ApbPrescalerBits(self.apb1_prescaler),
                   !.ppre2 = ApbPrescalerBits(self.apb2_prescaler),
                   !.csson = self.security_system,
                   !.clk48sel = Clk48SrcBits(self.clk48_src)]

\* low_power::InputSrc and low_power::PllSrc for a Clocks input source.
LpInputSrc(input_src) ==
    LET name(k) == IF k = "Hsi" THEN "Hsi16" ELSE k
    IN  [kind |-> name(input_src.kind),
         pll |-> IF input_src.kind = "Pll" THEN name(input_src.pll.kind) ELSE "none"]

\* impl InputSrc { pub fn bits(&self) -> u8 } of low_power.rs.
LpInputSrcBits(s) ==
    CASE s.kind = "Msi" -> 0
      [] s.kind = "Hsi16" -> 0
      [] s.kind = "Hse" -> 1
      [] s.kind = "Pll" -> 2

\* StopMode as u8.
StopModeBits(mode) ==
    CASE mode = "Zero" -> 0
      [] mode = "One" -> 1
      [] mode = "Two" -> 2

\* The variables no low-power function touches.
LpFrame ==
    UNCHANGED <<cfg, flash, result, out, setup_hclk, rtcvars, timvars>>

StopEnter ==
    /\ pc \in {"idle", "returned"}
    /\ calls < MaxCalls
    /\ \E mode \in {"Zero", "One", "Two"} :
          lp_args' = [op |-> "stop", mode |-> mode,
                      input_src |-> LpInputSrc(cfg.input_src)]
    /\ pc' = "lp_sleepdeep"
    /\ calls' = calls + 1
    /\ observed' = {}
    /\ log' = <<>>
    /\ UNCHANGED <<rcc, pwr>>
    /\ LpFrame

StandbyEnter ==
    /\ pc \in {"idle", "returned"}
    /\ calls < MaxCalls
    /\ lp_args' = [op |-> "standby", mode |-> "none",
                   input_src |-> LpInputSrc(cfg.input_src)]
    /\ pc' = "lp_sleepdeep"
    /\ calls' = calls + 1
    /\ observed' = {}
    /\ log' = <<>>
    /\ UNCHANGED <<rcc, pwr>>
    /\ LpFrame

ShutdownEnter ==
    /\ pc \in {"idle", "returned"}
    /\ calls < MaxCalls
    /\ lp_args' = [op |-> "shutdown", mode |-> "none",
                   input_src |-> LpInputSrc(cfg.input_src)]
    /\ pc' = "lp_sleepdeep"
    /\ calls' = calls + 1
    /\ observed' = {}
    /\ log' = <<>>
    /\ UNCHANGED <<rcc, pwr>>
    /\ LpFrame

\* scb.set_sleepdeep()
LpSetSleepdeep ==
    /\ pc = "lp_sleepdeep"
    /\ pwr' = [pwr EXCEPT !.sleepdeep = TRUE]
    /\ log' = Append(log, "SCR.sleepdeep")
    /\ pc' = "lp_lpms"
    /\ UNCHANGED <<rcc, calls, observed, lp_args>>
    /\ LpFrame

\* pwr.cr1.modify(|_, w| w.lpms().bits(..)): the stop mode, 0b011 for standby,
\* 0b100 for shutdown.
LpWriteLpms ==
    /\ pc = "lp_lpms"
    /\ pwr' = [pwr EXCEPT !.lpms = CASE lp_args.op = "stop" -> StopModeBits(lp_args.mode)
                                     [] lp_args.op = "standby" -> 3
                                     [] lp_args.op = "shutdown" -> 4]
    /\ log' = Append(log, "PWR_CR1.lpms")
    /\ pc' = IF lp_args.op = "stop" THEN "lp_wfi" ELSE "lp_scr"
    /\ UNCHANGED <<rcc, calls, observed, lp_args>>
    /\ LpFrame

\* pwr.scr.write(|w| w.bits(0))
LpWriteScr ==
    /\ pc = "lp_scr"
    /\ pwr' = [pwr EXCEPT !.scr = "zero"]
    /\ log' = Append(log, "PWR_SCR")
    /\ pc' = "lp_wfi"
    /\ UNCHANGED <<rcc, calls, observed, lp_args>>
    /\ LpFrame

\* The RCC registers on wake-up from a Stop mode: the HSE, the PLLs and the
\* HSI48 are off, and the hardware has made the wake-up oscillator (the MSI,
\* or the HSI16 if STOPWUCK is set) the system clock.
StopWakeRcc(r, osc) ==
    LET off == [r EXCEPT !.hseon = FALSE, !.hserdy = FALSE,
                         !.pllon = FALSE, !.pllrdy = FALSE,
                         !.pllsai1on = FALSE, !.pllsai1rdy = FALSE,
                         !.hsi48on = FALSE, !.hsi48rdy = FALSE]
    IN  IF osc = "msi"
        THEN [off EXCEPT !.msion = TRUE, !.msirdy = TRUE,
                         !.hsion = FALSE, !.hsirdy = FALSE, !.sw = 0]
        ELSE [off EXCEPT !.hsion = TRUE, !.hsirdy = TRUE,
                         !.msion = FALSE, !.msirdy = FALSE, !.sw = 1]

\* wfi(): with an interrupt pending the core does not sleep and the clocks
\* stay as they are; a Stop mode ends with the wake-up clock selected; Standby
\* and Shutdown end in a reset, so the call does not return.
LpWfi ==
    /\ pc = "lp_wfi"
    /\ \/ pc' = "resel" /\ rcc' = rcc
       \/ /\ lp_args.op = "stop"
          /\ pc' = "resel"
          /\ \E osc \in {"msi", "hsi"} : rcc' = StopWakeRcc(rcc, osc)
       \/ /\ lp_args.op \in {"standby", "shutdown"}
          /\ pc' = "reset"
          /\ rcc' = ResetRcc
    /\ UNCHANGED <<calls, observed, log, pwr, lp_args>>
    /\ LpFrame

\* re_select_input: the Msi and Hsi16 arms do nothing.
ReselNone ==
    /\ pc = "resel"
    /\ lp_args.input_src.kind \in {"Msi", "Hsi16"}
    /\ pc' = "returned"
    /\ UNCHANGED <<rcc, calls, observed, log, pwr, lp_args>>
    /\ LpFrame

\* The Hse and the Pll arm both begin by starting the HSE.
ReselHseOn ==
    /\ pc = "resel"
    /\ lp_args.input_src.kind \in {"Hse", "Pll"}
    /\ rcc' = [rcc EXCEPT !.hseon = TRUE]
    /\ log' = Append(log, "CR.hseon")
    /\ pc' = "resel_wait_hse"
    /\ UNCHANGED <<calls, observed, pwr, lp_args>>
    /\ LpFrame

\* while (*RCC::ptr()).cr.read().hserdy().bit_is_clear() {}
ReselWaitHse ==
    /\ pc = "resel_wait_hse"
    /\ rcc.hserdy
    /\ observed' = observed \cup {"hserdy"}
    /\ pc' = IF lp_args.input_src.kind = "Hse" THEN "resel_sw" ELSE "resel_pll_off"
    /\ UNCHANGED <<rcc, calls, log, pwr, lp_args>>
    /\ LpFrame

ReselPllOff ==
    /\ pc = "resel_pll_off"
    /\ rcc' = [rcc EXCEPT !.pllon = FALSE]
    /\ log' = Append(log, "CR.pllon=0")
    /\ pc' = "resel_wait_pll_off"
    /\ UNCHANGED <<calls, observed, pwr, lp_args>>
    /\ LpFrame

\* while (*RCC::ptr()).cr.read().pllrdy().bit_is_set() {}
ReselWaitPllOff ==
    /\ pc = "resel_wait_pll_off"
    /\ ~rcc.pllrdy
    /\ observed' = observed \cup {"pllrdy=0"}
    /\ pc' = "resel_sw"
    /\ UNCHANGED <<rcc, calls, log, pwr, lp_args>>
    /\ LpFrame

\* cfgr.modify(|_, w| w.sw().bits(input_src.bits()))
ReselWriteSw ==
    /\ pc = "resel_sw"
    /\ rcc' = [rcc EXCEPT !.sw = LpInputSrcBits(lp_args.input_src)]
    /\ log' = Append(log, "CFGR.sw")
    /\ pc' = IF lp_args.input_src.kind = "Hse" THEN "returned" ELSE "resel_pll_on"
    /\ UNCHANGED <<calls, observed, pwr, lp_args>>
    /\ LpFrame

ReselPllOn ==
    /\ pc = "resel_pll_on"
    /\ rcc' = [rcc EXCEPT !.pllon = TRUE]
    /\ log' = Append(log, "CR.pllon=1")
    /\ pc' = "resel_wait_pll"
    /\ UNCHANGED <<calls, observed, pwr, lp_args>>
    /\ LpFrame

\* while (*RCC::ptr()).cr.read().pllrdy().bit_is_clear() {}
ReselWaitPll ==
    /\ pc = "resel_wait_pll"
    /\ rcc.pllrdy
    /\ observed' = observed \cup {"pllrdy"}
    /\ pc' = "returned"
    /\ UNCHANGED <<rcc, calls, log, pwr, lp_args>>
    /\ LpFrame

LowPowerStep ==
    \/ LpSetSleepdeep \/ LpWriteLpms \/ LpWriteScr \/ LpWfi
    \/ ReselNone \/ ReselHseOn \/ ReselWaitHse \/ ReselPllOff \/ ReselWaitPllOff
    \/ ReselWriteSw \/ ReselPllOn \/ ReselWaitPll

\* A device configured by setup with one of the configurations.
InitLowPower ==
    /\ cfg \in LowPowerConfigs
    /\ pc = "idle"
    /\ rcc = ConfiguredRcc(cfg)
    /\ flash = [latency |-> FlashLatency(SetupHclk(cfg))]
    /\ result = "Ok"
    /\ calls = 0
    /\ observed = {}
    /\ log = <<>>
    /\ out = NoOut
    /\ setup_hclk = SetupHclk(cfg)
    /\ rtc = ResetRtc
    /\ exti = ResetExti
    /\ rtc_config = RtcConfig_default
    /\ rtc_args = NoArgs
    /\ pwr = ResetPwr
    /\ lp_args = NoLpArgs
    /\ tim = ResetTim
    /\ tim_args = NoTimArgs

NextLowPower ==
    StopEnter \/ StandbyEnter \/ ShutdownEnter \/ LowPowerStep \/ Hardware

SpecLowPower == InitLowPower /\ [][NextLowPower]_vars

(***************************************************************************)
(* Properties.                                                             *)
(***************************************************************************)
\* This step of setup writes the register field(s) `name`.
Writes(name) == Len(log') = Len(log) + 1 /\ log'[Len(log')] = name

\* The ready flag of the root oscillator `osc`.
RdyFlagOf(osc) == osc \o "rdy"

\* setup is past its oscillator phase: in the PLL reconfiguration, in the
\* switch-over, or returned Ok.
PastOscPhase ==
    \/ pc \in {"pll_off", "wait_pll_off", "pllcfgr", "sai1n", "pll_on", "sai1_on",
               "wait_sai1", "wait_pll", "pll_outputs", "sai1_outputs",
               "cfgr", "csson", "clk48", "hsi48_on", "wait_hsi48"}
    \/ (pc = "returned" /\ result = "Ok")

\* The four bus frequencies of a configuration lie in (0, 80] MHz.
WithinLimits(self) ==
    LET sp == Clocks_calc_speeds(self)
    IN  \A x \in {sp.sysclk, sp.hclk, sp.pclk1, sp.pclk2} : F32Gt(x, 0) /\ F32Le(x, 80)

MulsInRange(self) ==
    /\ self.pll_vco_mul \in 7..86
    /\ self.pll_sai1_mul \in 7..86
    /\ self.pll_sai2_mul \in 7..86

\* C1: when validate() says NotValid for the configuration of a setup call,
\* the call returns Err(SpeedError) at once and writes no FLASH or RCC
\* register: the entry step leaves both register blocks as they were and the
\* call makes no further step.
C1_RejectedWritesNothing ==
    /\ [][(calls' # calls /\ Clocks_validate(cfg') = "NotValid")
            => (pc' = "returned" /\ result' = "Err" /\ log' = <<>>
                /\ rcc' = rcc /\ flash' = flash)]_vars
    /\ []((calls > 0 /\ Clocks_validate(cfg) = "NotValid")
            => (pc = "returned" /\ result = "Err" /\ log = <<>>))

\* C1 witness: a second call rejected after a first one that started the PLL.
C1_Witness ==
    /\ calls = 2 /\ pc = "returned" /\ result = "Err"
    /\ Clocks_validate(cfg) = "NotValid"
    /\ rcc.pllon /\ rcc.sw = 3

\* C2: setup never reaches the PLL reconfiguration or the clock switch-over
\* before every root oscillator it turned on in this call (MSI, HSI16, HSE)
\* has been polled and observed ready.
C2_EnabledOscObservedReady ==
    PastOscPhase =>
        \A osc \in {"msi", "hsi", "hse"} :
            ("CR." \o osc \o "on") \in Written => RdyFlagOf(osc) \in observed

\* C3: in every setup call, the step that writes the PLL source, PLLM, PLLN
\* and PLLR fields of PLLCFGR happens after this call cleared PLLON and then
\* observed PLLRDY clear, before it sets PLLON again, with the PLL off and
\* not ready.
C3_PllCfgWrittenWhileStopped ==
    [][Writes("PLLCFGR.cfg")
         => (/\ ~rcc.pllon /\ ~rcc.pllrdy
             /\ "pllrdy=0" \in observed
             /\ "CR.pllon=0" \in Written
             /\ "CR.pllon=1" \notin Written)]_vars

\* C3 witness: the second call has rewritten PLLCFGR of a PLL that the first
\* call had left running with its outputs enabled.
C3_Witness ==
    /\ calls = 2 /\ pc = "pll_on"
    /\ "PLLCFGR.cfg" \in Written
    /\ rcc.pllpen /\ rcc.sw = 3

\* C4: the step that sets PLLPEN/PLLQEN/PLLREN happens after this call set
\* PLLON and observed PLLRDY set, and the step that sets the PLLSAI1 output
\* enables happens after this call set PLLSAI1ON and observed PLLSAI1RDY set.
C4_OutputsEnabledAfterLock ==
    [][/\ Writes("PLLCFGR.en")
            => (/\ rcc.pllon /\ rcc.pllrdy
                /\ "CR.pllon=1" \in Written /\ "pllrdy" \in observed)
       /\ Writes("PLLSAI1CFGR.en")
            => (/\ rcc.pllsai1on /\ rcc.pllsai1rdy
                /\ "CR.pllsai1on" \in Written /\ "pllsai1rdy" \in observed)]_vars

\* C4 witness: a call has enabled the outputs of both PLLs.
C4_Witness ==
    /\ "PLLCFGR.en" \in Written /\ "PLLSAI1CFGR.en" \in Written
    /\ rcc.pllren /\ rcc.pllsai1ren

\* The number of writes of `name` in the current call.
WriteCount(name) == Cardinality({i \in 1..Len(log) : log[i] = name})

\* Every ready wait this call has to make before the switch-over is done.
ReadyWaitsDone ==
    /\ OscWaitFlag(cfg.input_src) # "none" => OscWaitFlag(cfg.input_src) \in observed
    /\ cfg.input_src.kind = "Pll" => "pllrdy" \in observed
    /\ (cfg.input_src.kind = "Pll" /\ cfg.sai1_enabled) => "pllsai1rdy" \in observed

\* C5: SW and the AHB/APB1/APB2 prescalers change only in the one CFGR write
\* of a call, which sets all four and comes after the call's oscillator and
\* PLL ready waits; the 48 MHz selector is written only after that write; and
\* a call that returned Ok turned the HSI48 on and saw it ready if and only
\* if the selector is Hsi48.
C5_Switchover ==
    /\ [][/\ Writes("CFGR")
               => (/\ "CFGR" \notin Written
                   /\ ReadyWaitsDone
                   /\ rcc'.sw = InputSrcBits(cfg.input_src)
                   /\ rcc'.hpre = HclkPrescalerBits(cfg.hclk_prescaler)
                   /\ rcc'.ppre1 = ApbPrescalerBits(cfg.apb1_prescaler)
                   /\ rcc'.ppre2 = ApbPrescalerBits(cfg.apb2_prescaler))
          /\ <<rcc'.sw, rcc'.hpre, rcc'.ppre1, rcc'.ppre2>>
                # <<rcc.sw, rcc.hpre, rcc.ppre1, rcc.ppre2>> => Writes("CFGR")
          /\ Writes("CCIPR.clk48sel") => WriteCount("CFGR") = 1
          /\ Writes("CRRCR.hsi48on") => "CCIPR.clk48sel" \in Written]_vars
    /\ []((pc = "returned" /\ result = "Ok")
            => (/\ WriteCount("CFGR") = 1
                /\ WriteCount("CCIPR.clk48sel") = 1
                /\ ("CRRCR.hsi48on" \in Written) = (cfg.clk48_src = "Hsi48")
                /\ ("hsi48rdy" \in observed) = (cfg.clk48_src = "Hsi48")))

\* C5 witness: a PLL configuration with PLLSAI1 and the HSI48 selected has
\* returned Ok.
C5_Witness ==
    /\ pc = "returned" /\ result = "Ok"
    /\ cfg.input_src.kind = "Pll" /\ cfg.sai1_enabled /\ cfg.clk48_src = "Hsi48"
    /\ rcc.hsi48rdy /\ rcc.sw = 3

\* C6: under FairSpec (the caller keeps executing, every flag eventually
\* follows its enable bit) a setup call whose configuration passes validation
\* eventually returns Ok; and a call returns Err only for a configuration
\* that validate() rejects.
C6_ValidSetupReturnsOk ==
    /\ (calls > 0 /\ Clocks_validate(cfg) = "Valid")
          ~> (pc = "returned" /\ result = "Ok")
    /\ [](result = "Err" => Clocks_validate(cfg) = "NotValid")

\* C6 witness: the second call of a sequence, a PLL configuration with every
\* ready wait there is, has returned Ok.
C6_Witness ==
    /\ calls = 2 /\ pc = "returned" /\ result = "Ok"
    /\ Clocks_validate(cfg) = "Valid"
    /\ {"hsirdy", "pllsai1rdy", "pllrdy", "hsi48rdy"} \subseteq observed

\* C7: Clocks::validate returns NotValid whenever one of the three PLL
\* multipliers is outside 7..86, whatever the frequencies; and with all three
\* inside 7..86 (7 and 86 included) a configuration whose bus frequencies
\* are within (0, 80] MHz is Valid.
C7_MultiplierRange ==
    out.op = "validate" =>
        /\ ~MulsInRange(cfg) => out.val = "NotValid"
        /\ (MulsInRange(cfg) /\ WithinLimits(cfg)) => out.val = "Valid"

\* C7 witness: a VCO multiplier of 87 is rejected although every frequency is
\* within limits.
C7_Witness ==
    /\ out.op = "validate" /\ out.val = "NotValid"
    /\ cfg.pll_vco_mul = 87 /\ cfg.pll_sai1_mul = 7 /\ cfg.pll_sai2_mul = 8
    /\ WithinLimits(cfg)

\* C8: the primary verdict is NotValid whenever sysclk, hclk, pclk1 or pclk2
\* is greater than 80 MHz or is not strictly positive.
C8_OutsideLimitsRejected ==
    (out.op = "validate" /\ ~WithinLimits(cfg)) => out.val = "NotValid"

\* C9: a setup call with input source Pll(PllSrc::None) derives an input
\* frequency of 0, is rejected by validate(), returns Err and writes nothing.
C9_PllNoneRejected ==
    (calls > 0 /\ cfg.input_src = InputSrcPll(PllSrcNone)) =>
        /\ calc_sysclock(cfg.input_src, cfg.pllm, cfg.pll_vco_mul, cfg.pllr)[1] = F32Zero
        /\ Clocks_validate(cfg) = "NotValid"
        /\ pc = "returned" /\ result = "Err" /\ log = <<>>

\* C10: Clocks::validate_usb returns Valid exactly when the derived USB clock
\* u satisfies 48 <= u < 49 (its truncation to whole MHz is 48), whatever the
\* primary verdict is.
C10_UsbVerdict ==
    out.op = "validate_usb" =>
        LET usb == Clocks_calc_speeds(cfg).usb
        IN  (out.val = "Valid") = (~F32Lt(usb, 48) /\ F32Lt(usb, 49))

\* C10 witness: the default preset is primary-valid and USB-invalid.
C10_Witness ==
    /\ out.op = "validate_usb" /\ out.val = "NotValid"
    /\ cfg = Clocks_default
    /\ Clocks_validate(cfg) = "Valid"

(***************************************************************************)
(* Properties of calc_speeds.                                              *)
(***************************************************************************)
\* The frequency of the oscillator at the root of a configuration, in kHz.
SourceKHz(src) ==
    LET s == IF src.kind = "Pll" THEN src.pll ELSE src
    IN  CASE s.kind = "Msi" -> MsiRangeValue(s.arg) \div 1000
          [] s.kind = "Hsi" -> 16000
          [] s.kind = "Hse" -> s.arg * 1000
          [] s.kind = "None" -> 0

\* The same frequency as the f32 number of MHz.
InputFreqMHz(src) == F32DivInt(F32FromInt(SourceKHz(src)), 1000)

\* floor(64 * v) for an f32 v below 2^24.
Sixtyfourths(v) ==
    IF v[1] = 0 THEN 0
    ELSE IF v[2] + 6 >= 0 THEN v[1] * Pow2(v[2] + 6)
    ELSE IF -(v[2] + 6) >= 24 THEN 0
    ELSE v[1] \div Pow2(-(v[2] + 6))

\* The f32 v is the exact quotient num / den to within 1/64 (MHz).
Near(v, num, den) == (Sixtyfourths(v) - ((64 * num) \div den)) \in {-1, 0, 1}

\* Twice an f32 (exact).
Twice(v) == IF v[1] = 0 THEN v ELSE <<v[1], v[2] + 1>>

\* a <= b for two non-negative f32.
F32LeF(a, b) ==
    \/ a[1] = 0
    \/ (b[1] # 0 /\ (a[2] < b[2] \/ (a[2] = b[2] /\ a[1] <= b[1])))

\* C11: calc_speeds yields sysclk = input_freq / pllm * pll_vco_mul / pllr
\* when the input source is the PLL and sysclk = input_freq otherwise (in f32,
\* hence within rounding of the exact quotient); hclk = sysclk / AHB
\* prescaler; systick = fclk = hclk; pclk1 = hclk / APB1 prescaler and
\* pclk2 = hclk / APB2 prescaler.
C11_CalcSpeeds ==
    out.op = "calc_speeds" =>
        LET sp == out.val
            f == InputFreqMHz(cfg.input_src)
            M == PllmValue(cfg.pllm)
            R == PllrValue(cfg.pllr)
            H == HclkPrescalerValue(cfg.hclk_prescaler)
        IN  /\ IF cfg.input_src.kind = "Pll"
               THEN /\ sp.sysclk = F32DivInt(F32MulInt(F32DivInt(f, M), cfg.pll_vco_mul), R)
                    /\ Near(sp.sysclk, SourceKHz(cfg.input_src) * cfg.pll_vco_mul,
                            1000 * M * R)
               ELSE /\ sp.sysclk = f
                    /\ Near(sp.sysclk, SourceKHz(cfg.input_src), 1000)
            /\ sp.hclk = F32DivInt(sp.sysclk, H)
            /\ sp.systick = sp.hclk /\ sp.fclk = sp.hclk
            /\ sp.pclk1 = F32DivInt(sp.hclk, ApbPrescalerValue(cfg.apb1_prescaler))
            /\ sp.pclk2 = F32DivInt(sp.hclk, ApbPrescalerValue(cfg.apb2_prescaler))
            /\ cfg.input_src.kind = "Pll" =>
                  Near(sp.pclk2, SourceKHz(cfg.input_src) * cfg.pll_vco_mul,
                       1000 * M * R * H * ApbPrescalerValue(cfg.apb2_prescaler))

\* C11 witness: HSI16 through the PLL (16 / 5 * 50 / 6 = 26.67 MHz) with
\* every prescaler dividing.
C11_Witness ==
    /\ out.op = "calc_speeds"
    /\ cfg.input_src = InputSrcPll(PllSrcHsi)
    /\ cfg.pllm = "Div5" /\ cfg.pll_vco_mul = 50 /\ cfg.pllr = "Div6"
    /\ cfg.hclk_prescaler = "Div2" /\ cfg.apb1_prescaler = "Div2"
    /\ cfg.apb2_prescaler = "Div4"
    /\ F32Floor(out.val.sysclk) = 26 /\ F32HasFrac(out.val.sysclk)
    /\ F32Floor(out.val.pclk2) = 3

\* C12: each timer clock equals its bus clock when the APB prescaler is Div1
\* and is twice the bus clock otherwise (hclk 80 with APB1 Div2: pclk1 40,
\* timer1 80); so a timer clock never exceeds hclk.
C12_TimerClocks ==
    out.op = "calc_speeds" =>
        LET sp == out.val
        IN  /\ sp.timer1 = IF cfg.apb1_prescaler = "Div1" THEN sp.pclk1 ELSE Twice(sp.pclk1)
            /\ sp.timer2 = IF cfg.apb2_prescaler = "Div1" THEN sp.pclk2 ELSE Twice(sp.pclk2)
            /\ F32LeF(sp.timer1, sp.hclk) /\ F32LeF(sp.timer2, sp.hclk)
            /\ (sp.hclk = F32FromInt(80) /\ cfg.apb1_prescaler = "Div2")
                  => (sp.pclk1 = F32FromInt(40) /\ sp.timer1 = F32FromInt(80))

\* C12 witness: hclk 80 MHz, APB1 Div2 (timer1 back at 80), APB2 Div4
\* (timer2 at 40).
C12_Witness ==
    /\ out.op = "calc_speeds"
    /\ out.val.hclk = F32FromInt(80)
    /\ cfg.apb1_prescaler = "Div2" /\ out.val.timer1 = F32FromInt(80)
    /\ cfg.apb2_prescaler = "Div4" /\ out.val.timer2 = F32FromInt(40)

\* C13: the USB clock is input_freq / pllm * pll_sai1_mul / 2, whatever
\* clk48_src selects and whether or not the PLL is the system clock source.
C13_UsbClock ==
    out.op = "calc_speeds" =>
        LET f == InputFreqMHz(cfg.input_src)
            M == PllmValue(cfg.pllm)
        IN  /\ out.val.usb = F32DivInt(F32MulInt(F32DivInt(f, M), cfg.pll_sai1_mul), 2)
            /\ Near(out.val.usb, SourceKHz(cfg.input_src) * cfg.pll_sai1_mul,
                    1000 * M * 2)

\* C13 witness: the HSE is the system clock, the HSI48 feeds the 48 MHz
\* domain, and the USB clock is still derived: 8 / 1 * 12 / 2 = 48.
C13_Witness ==
    /\ out.op = "calc_speeds"
    /\ cfg.input_src = InputSrcHse(8) /\ cfg.clk48_src = "Hsi48"
    /\ cfg.pllm = "Div1" /\ cfg.pll_sai1_mul = 12
    /\ out.val.usb = F32FromInt(48)

\* The configuration of C14: PLL fed by an 8 MHz HSE, PLLM 1, N 20, PLLR 2,
\* all prescalers 1.
IsHse80(self) ==
    /\ self.input_src = InputSrcPll(PllSrcHse(8))
    /\ self.pllm = "Div1" /\ self.pll_vco_mul = 20 /\ self.pllr = "Div2"
    /\ self.hclk_prescaler = "Div1" /\ self.apb1_prescaler = "Div1"
    /\ self.apb2_prescaler = "Div1"

\* C14: with the PLL fed by an 8 MHz HSE, PLLM 1, N 20, PLLR 2 and all
\* prescalers 1, sysclk = hclk = pclk1 = timer1 = 80 MHz and the primary
\* verdict is Valid.
C14_Hse80 ==
    IsHse80(cfg) =>
        /\ out.op = "calc_speeds" =>
              /\ out.val.sysclk = F32FromInt(80) /\ out.val.hclk = F32FromInt(80)
              /\ out.val.pclk1 = F32FromInt(80) /\ out.val.timer1 = F32FromInt(80)
              /\ validate(out.val)[1] = "Valid"
        /\ (out.op = "validate" /\ MulsInRange(cfg)) => out.val = "Valid"

\* C14 witness: the 80 MHz tree computed for a configuration that differs
\* from the default preset in its auxiliary multiplier.
C14_Witness ==
    /\ IsHse80(cfg) /\ cfg.pll_sai1_mul = 12
    /\ out.op = "calc_speeds" /\ out.val.sysclk = F32FromInt(80)
    /\ validate(out.val)[1] = "Valid"

\* C15: Clocks::default() configures an HSE-driven tree with a 32 MHz sysclk
\* and all peripheral clocks at 32 MHz.
C15_DefaultIs32MHz ==
    (out.op = "calc_speeds" /\ cfg = Clocks_default) =>
        /\ cfg.input_src.kind = "Pll" /\ cfg.input_src.pll.kind = "Hse"
        /\ \A x \in {out.val.sysclk, out.val.hclk, out.val.pclk1, out.val.pclk2,
                     out.val.timer1, out.val.timer2} : x = F32FromInt(32)

\* The steps of the MSI table at which the frequency does not double.
MsiIrregularSteps == {3, 8, 9, 10}

\* C16 as stated: the MSI table has 12 entries from 0.1 MHz to 48 MHz and
\* doubles at each step except exactly the two steps 8 -> 9 and 9 -> 10.
C16_TwoIrregularSteps ==
    out.op = "msi_value" =>
        LET r == out.val.range
            v == out.val.value
        IN  /\ r \in 0..11
            /\ r = 0 => v = 100000
            /\ r = 11 => v = 48000000
            /\ r < 11 => ((MsiRangeValue(r + 1) = 2 * v) <=> r \notin {8, 9})

\* C16 (amended): the MSI table has 12 entries from 0.1 MHz to 48 MHz and
\* doubles at each step except the four steps 3 -> 4 (0.8 to 1 MHz), 8 -> 9
\* (16 to 24), 9 -> 10 (24 to 32) and 10 -> 11 (32 to 48).
C16_FourIrregularSteps ==
    out.op = "msi_value" =>
        LET r == out.val.range
            v == out.val.value
        IN  /\ r \in 0..11
            /\ r = 0 => v = 100000
            /\ r = 11 => v = 48000000
            /\ r < 11 => ((MsiRangeValue(r + 1) = 2 * v) <=> r \notin MsiIrregularSteps)

\* C16 witness: Range3 looked up, 800 kHz, whose successor is 1 MHz.
C16_Witness ==
    /\ out.op = "msi_value" /\ out.val.range = 3 /\ out.val.value = 800000
    /\ MsiRangeValue(4) = 1000000

(***************************************************************************)
(* Properties of the wakeup interval encoding.                             *)
(***************************************************************************)
\* The fine regime: 0.00012207 <= t < 32.
InFineRegime(t) == ~F32Less(t, MinSleepTime) /\ F32Lt(t, 32)

\* The WUCKSEL value of each band of the fine regime.
FineSelector(t) ==
    IF F32Lt(t, 4) THEN 3 ELSE IF F32Lt(t, 8) THEN 2 ELSE IF F32Lt(t, 16) THEN 1 ELSE 0

\* The divisor of each band of the fine regime.
FineDivisor(t) ==
    IF F32Lt(t, 4) THEN 2 ELSE IF F32Lt(t, 8) THEN 4 ELSE IF F32Lt(t, 16) THEN 8 ELSE 16

\* The frequency of the RTC clock, in Hz.
SourceFreqHz(config) ==
    CASE config.clock_source = "Lse" -> 32768
      [] config.clock_source = "Lsi" -> 32000
      [] config.clock_source = "Hse" -> 250000

\* round(q) of an f32 1 <= q < 2^24: the nearest integer, halves upward.
F32RoundInt(q) ==
    IF q[2] >= 0 THEN q[1] * Pow2(q[2])
    ELSE (q[1] + Pow2(-q[2] - 1)) \div Pow2(-q[2])

\* C17: a wakeup duration below 0.00012207 s (0.00005, 0, a negative value)
\* passed to set_wakeup or set_wakeup_interval is rejected: the call writes
\* neither the reload (WUTR) nor the selector (WUCKSEL).
C17_TooShortRejected ==
    (rtc_args.op # "none" /\ F32Less(rtc_args.sleep_time, MinSleepTime)) =>
        ("WUTR.wut" \notin Written /\ "CR.wcksel" \notin Written)

\* C18: a duration of 131072 s or more (200000, say) is rejected: the call
\* writes neither WUTR nor WUCKSEL, leaves both fields as they were, and
\* never gets past the encoder.
C18_TooLongRejected ==
    /\ []((rtc_args.op # "none" /\ ~F32Lt(rtc_args.sleep_time, 131072)) =>
            /\ "WUTR.wut" \notin Written /\ "CR.wcksel" \notin Written
            /\ pc \notin {"wcksel", "wute_set", "wutie", "wutf_clear", "wpr_ff",
                          "returned"})
    /\ [][(rtc_args'.op # "none" /\ ~F32Lt(rtc_args'.sleep_time, 131072)) =>
            (rtc'.wut = rtc.wut /\ rtc'.wucksel = rtc.wucksel)]_vars

\* C18 witness: 200000 s rejected by a call that follows one which had
\* programmed 1 s from the LSE; the earlier reload and selector are intact.
C18_Witness ==
    /\ calls = 2 /\ pc = "panicked"
    /\ rtc_args.sleep_time = F32FromInt(200000)
    /\ rtc.wut = 16383 /\ rtc.wucksel = 3

\* C19: every duration in [0.00012207, 32) is encoded in the fine regime:
\* the WUCKSEL written is 0b011 below 4 s, 0b010 in [4, 8), 0b001 in [8, 16)
\* and 0b000 in [16, 32).
C19_FineRegimeSelector ==
    /\ [][(Writes("CR.wcksel") /\ InFineRegime(rtc_args.sleep_time)) =>
            rtc'.wucksel = FineSelector(rtc_args.sleep_time)]_vars
    /\ []((pc = "returned" /\ InFineRegime(rtc_args.sleep_time)) =>
            /\ "CR.wcksel" \in Written
            /\ rtc.wucksel = FineSelector(rtc_args.sleep_time))

\* C19 witness: 15.99 s programmed (selector 0b001) by a call that follows
\* one which had left another selector.
C19_Witness ==
    /\ calls = 2 /\ pc = "returned"
    /\ rtc_args.sleep_time = <<16766730, -20>>
    /\ rtc.wucksel = 1
    /\ "CR.wcksel" \in Written

\* C20: for a duration in [0.00012207, 32) the reload written to WUTR is
\* round(seconds * f / divisor) - 1, f being the frequency of the RTC clock
\* source; 1.0 s with the LSE gives 16383.
C20_ReloadRounded ==
    (pc = "wcksel" /\ InFineRegime(rtc_args.sleep_time)) =>
        LET t == rtc_args.sleep_time
            q == F32DivInt(F32Mul(t, F32FromInt(SourceFreqHz(rtc_config))),
                           FineDivisor(t))
        IN  /\ rtc.wut = F32RoundInt(q) - 1
            /\ (rtc_config.clock_source = "Lse" /\ t = F32FromInt(1))
                  => rtc.wut = 16383

\* The calls that go through set_wakeup_interval_inner.
IntervalOps == {"set_wakeup", "set_wakeup_interval"}

\* The 1 Hz regimes: 32 <= t < 65536 and 65536 <= t < 131072.
InRegimeB(t) == ~F32Lt(t, 32) /\ F32Lt(t, 65536)
InRegimeC(t) == ~F32Lt(t, 65536) /\ F32Lt(t, 131072)

\* The integer part of a signed f32 below 2^24 in magnitude (toward zero).
F32TruncInt(a) == IF a[1] >= 0 THEN F32Floor(a) ELSE -F32Floor(<<-a[1], a[2]>>)

C22_RegimeC ==
    (pc = "wute_set" /\ rtc_args.op \in IntervalOps
       /\ InRegimeC(rtc_args.sleep_time)) =>
        /\ rtc.wucksel = 6
        /\ rtc.wut = F32TruncInt(F32SubInt(rtc_args.sleep_time, 65537))

\* C30: for every duration the encoder accepts (0.00012207 s or more, and
\* no panic) and every RTC clock source the computed reload lies in
\* 0..65535, so the value written to WUTR is the computed value, neither
\* saturated nor wrapped.
C30_ReloadFits ==
    (rtc_args.op \in IntervalOps /\ ~rtc_args.panics
       /\ ~F32Less(rtc_args.sleep_time, MinSleepTime)) =>
        /\ ~F32Less(rtc_args.wutr, F32Zero)
        /\ F32TruncInt(rtc_args.wutr) \in 0..65535
        /\ pc = "wcksel" => rtc.wut = F32TruncInt(rtc_args.wutr)

(***************************************************************************)
(* Further properties of Clocks::setup.                                    *)
(***************************************************************************)
\* The fields of the main PLL and of PLLSAI1 that software writes.
PllFields(r) ==
    <<r.pllon, r.pllsrc, r.plln, r.pllm, r.pllr, r.pllpen, r.pllqen, r.pllren>>
Sai1Fields(r) ==
    <<r.pllsai1on, r.pllsai1n, r.pllsai1pen, r.pllsai1qen, r.pllsai1ren>>

PllWrites == {"CR.pllon=0", "CR.pllon=1", "PLLCFGR.cfg", "PLLCFGR.en"}
Sai1Writes == {"PLLSAI1CFGR.n", "CR.pllsai1on", "PLLSAI1CFGR.en"}

\* C23: in any sequence of setup calls the auxiliary multiplier PLLSAI1N is
\* written only while PLLSAI1 is disabled and not ready.
C23_Sai1NWrittenWhileStopped ==
    [][Writes("PLLSAI1CFGR.n") => (~rcc.pllsai1on /\ ~rcc.pllsai1rdy)]_vars

\* C24: a setup call whose input source is not the PLL changes neither PLLON
\* nor PLLCFGR nor any PLLSAI1 field, and one whose source is the PLL with
\* sai1_enabled false writes neither PLLSAI1CFGR nor PLLSAI1ON.
C24_UnusedPllsUntouched ==
    /\ [][/\ cfg'.input_src.kind # "Pll" =>
               (PllFields(rcc') = PllFields(rcc) /\ Sai1Fields(rcc') = Sai1Fields(rcc))
          /\ (cfg'.input_src.kind = "Pll" /\ ~cfg'.sai1_enabled) =>
               Sai1Fields(rcc') = Sai1Fields(rcc)]_vars
    /\ [](/\ cfg.input_src.kind # "Pll" => Written \cap (PllWrites \cup Sai1Writes) = {}
          /\ ~cfg.sai1_enabled => Written \cap Sai1Writes = {})

\* C24 witness: a call for the HSI16 has returned Ok after one that had
\* started both PLLs; both are still on, with their outputs enabled.
C24_Witness ==
    /\ calls = 2 /\ pc = "returned" /\ result = "Ok"
    /\ cfg.input_src = InputSrcHsi
    /\ rcc.sw = 1 /\ rcc.pllon /\ rcc.pllren /\ rcc.pllsai1on /\ rcc.pllsai1ren

\* The wait states the target hclk calls for: one per threshold exceeded.
WaitStates(hclk) == Cardinality({x \in {16, 32, 48, 64} : F32Gt(hclk, x)})

\* C29: in a successful setup the flash latency is the first register write
\* of the call, hence programmed before the PLL is enabled and before the
\* clock switch-over, with 0 wait states for a target hclk <= 16 MHz, 1 for
\* <= 32, 2 for <= 48, 3 for <= 64 and 4 above.
C29_FlashLatencyFirst ==
    /\ [][/\ Writes("FLASH_ACR.latency") =>
               (log = <<>> /\ flash'.latency = WaitStates(Clocks_calc_speeds(cfg).hclk))
          /\ flash'.latency # flash.latency => Writes("FLASH_ACR.latency")
          /\ (Writes("CR.pllon=1") \/ Writes("CFGR")) =>
               (log # <<>> /\ log[1] = "FLASH_ACR.latency")]_vars
    /\ []((pc = "returned" /\ result = "Ok") =>
            /\ log[1] = "FLASH_ACR.latency"
            /\ WriteCount("FLASH_ACR.latency") = 1
            /\ flash.latency = WaitStates(Clocks_calc_speeds(cfg).hclk))

\* C29 witness: a 60 MHz configuration (3 wait states) has returned Ok as
\* the second call of a sequence.
C29_Witness ==
    /\ calls = 2 /\ pc = "returned" /\ result = "Ok"
    /\ cfg.input_src = InputSrcPll(PllSrcHse(12))
    /\ Clocks_calc_speeds(cfg).hclk = F32FromInt(60)
    /\ flash.latency = 3 /\ rcc.sw = 3

(***************************************************************************)
(* WakeupTimer and Rtc::set_alarm.                                         *)
(***************************************************************************)
\* The entries of the log that are no register writes of the program.
NotWrites == {"ISR.read", "HW.wutf", "HW.alraf", "HW.alrbf"}

\* The position of the last entry `name` of the log, 0 if there is none.
LastPos(name) ==
    LET at == {i \in 1..Len(log) : log[i] = name}
    IN  IF at = {} THEN 0 ELSE CHOOSE i \in at : \A j \in at : j <= i

\* The program has cleared a flag (log entry `clr`) in this call, and the
\* hardware has not raised it (entry `hw`) since.
ClearedAndQuiet(clr, hw) == LastPos(clr) > 0 /\ LastPos(hw) < LastPos(clr)

\* A flag was set when the call read ISR: it was pending on entry, or the
\* hardware raised it before the read.
SetAtRead(flag) ==
    \/ ("entry." \o flag) \in observed
    \/ \E i \in 1..Len(log) : log[i] = "HW." \o flag /\ i < LastPos("ISR.read")

\* C25: WakeupTimer::start panics exactly for the delays outside 1..2^17,
\* and does so without having accessed a register; a start that returns has
\* left the low 16 bits of delay - 1 in WUT, and WUCKSEL 0b110 if bit 16 of
\* delay - 1 is set and 0b100 if not.
C25_StartProgramsDelay ==
    rtc_args.op = "start" =>
        LET d == rtc_args.delay
            inRange == d \in 1..131072
        IN  /\ (pc = "panicked") <=> ~inRange
            /\ pc = "panicked" => \A i \in 1..Len(log) : log[i] \in NotWrites
            /\ pc = "returned" =>
                  /\ rtc.wut = (d - 1) - 65536 * ((d - 1) \div 65536)
                  /\ rtc.wucksel = IF d - 1 >= 65536 THEN 6 ELSE 4
                  /\ rtc.wute

\* C25 witness: start(2^17) has returned: WUT 0xFFFF, WUCKSEL 0b110.
C25_Witness ==
    /\ rtc_args.op = "start" /\ rtc_args.delay = 131072 /\ pc = "returned"
    /\ rtc.wut = 65535 /\ rtc.wucksel = 6

\* C26: wait returns Ok exactly when WUTF was set at its read of ISR, and it
\* clears the flag; cancel returns with the flag clear; after wait and start
\* the flag is set only if the timer has expired again since the call
\* cleared it.  Hence a wait that follows a wait with no expiry in between
\* finds the flag clear.
C26_WaitConsumesFlag ==
    /\ [](pc = "returned" =>
            /\ rtc_args.op = "wait" =>
                  (result = "Ok" <=> SetAtRead("wutf"))
            /\ rtc_args.op = "wait" =>
                  (result = "WouldBlock" <=> ~SetAtRead("wutf"))
            /\ rtc_args.op = "cancel" => ~rtc.wutf /\ result = "Ok"
            /\ rtc_args.op \in {"wait", "cancel", "start"} =>
                  /\ LastPos("ISR.wutf=0") > 0
                  /\ rtc.wutf => ~ClearedAndQuiet("ISR.wutf=0", "HW.wutf"))
    /\ [][(pc = "returned" /\ rtc_args.op = "wait" /\ rtc_args'.op = "wait"
            /\ pc' = "ci_read"
            /\ ClearedAndQuiet("ISR.wutf=0", "HW.wutf"))
          => "entry.wutf" \notin observed']_vars

\* C26 witness: a wait has found the flag set, returned Ok and left it clear.
C26_Witness ==
    /\ rtc_args.op = "wait" /\ pc = "returned" /\ result = "Ok"
    /\ "entry.wutf" \in observed /\ ~rtc.wutf /\ rtc.wute

\* C27: set_alarm writes ALRMAR (ALRMBR) only with alarm A (B) disabled and
\* after it has seen ALRAWF (ALRBWF) set; when it returns the alarm is
\* enabled, write protection is locked, and the alarm flag has been cleared
\* (it is set only if the alarm has matched again since).
C27_SetAlarmProtocol ==
    /\ [](pc = "returned" /\ rtc_args.op = "set_alarm" =>
            LET a == rtc_args.alarm
            IN  /\ rtc[AlarmEnableBit(a)]
                /\ rtc.wpr = "locked"
                /\ rtc[AlarmRegister(a)] # <<>>
                /\ LastPos("ISR." \o AlarmFlag(a) \o "=0") > LastPos("CR." \o AlarmEnableBit(a) \o "=1")
                /\ rtc[AlarmFlag(a)] =>
                      ~ClearedAndQuiet("ISR." \o AlarmFlag(a) \o "=0",
                                       "HW." \o AlarmFlag(a)))
    /\ [][/\ Writes("alrmar") =>
              ~rtc.alrae /\ rtc.alrawf /\ "alrawf" \in observed
          /\ Writes("alrmbr") =>
              ~rtc.alrbe /\ rtc.alrbwf /\ "alrbwf" \in observed]_vars

\* C27 witness: set_alarm has reprogrammed alarm B, which was enabled and
\* had its flag set when the call began.
C27_Witness ==
    /\ rtc_args.op = "set_alarm" /\ rtc_args.alarm = "AlarmB" /\ pc = "returned"
    /\ "entry.alrbf" \in observed /\ ~rtc.alrbf /\ rtc.alrbe
    /\ rtc.alrmbr = <<3, 1, 2, 3, 5, 9, 0, 9, 0, 0>>

(***************************************************************************)
(* Low-power modes.                                                        *)
(***************************************************************************)
LowPowerOps == {"stop", "standby", "shutdown"}

\* The device is in the state setup has left it in for `cfg`.
SetupLeftConfigured ==
    /\ pc = "returned" /\ result = "Ok" /\ calls = 1
    /\ rcc = ConfiguredRcc(cfg) /\ setup_hclk = SetupHclk(cfg)
    /\ flash.latency = FlashLatency(SetupHclk(cfg))

\* C28: when stop, standby or shutdown has returned, SW holds the encoding
\* Clocks::setup writes for the input source the caller has passed.
C28_SourceReselected ==
    (pc = "returned" /\ lp_args.op \in LowPowerOps) =>
        rcc.sw = InputSrcBits(cfg.input_src)

(***************************************************************************)
(* The RTC operations as a whole.                                          *)
(***************************************************************************)
\* C31: when set_wakeup or set_wakeup_interval rejects its duration, write
\* protection is locked and WUTE is what it was when the call began.
C31_RejectionLeavesRtc ==
    (pc = "panicked" /\ rtc_args.op \in IntervalOps) =>
        /\ rtc.wpr = "locked"
        /\ rtc.wute <=> "entry.wute" \in observed

\* Interrupt delivery for an event is enabled: its interrupt enable bit in CR
\* and the mask and rising-edge bits of its EXTI line are set.
Delivery(event) ==
    /\ rtc[EventEnableBit(event)]
    /\ exti["mr" \o EventLine(event)]
    /\ exti["rtsr" \o EventLine(event)]

\* C36: when unlisten(e1) returns and both e1 and another event e2 were being
\* listened to when it was called, interrupt delivery for e2 is still enabled:
\* e2's interrupt enable bit and the EXTI mask and rising-edge bits it uses
\* are set.
C36_UnlistenKeepsOthers ==
    (pc = "returned" /\ rtc_args.op = "unlisten") =>
        \A e2 \in Events \ {rtc_args.event} :
            {"entry." \o rtc_args.event, "entry." \o e2} \subseteq observed
                => Delivery(e2)

\* C34: when WakeupTimer::start(d) returns for a whole number of seconds d
\* with 32 <= d < 131072, WUCKSEL and WUT hold the pair that
\* set_wakeup_interval(d) programs for the same d.
C34_SamePair ==
    (pc = "returned" /\ rtc_args.op = "start" /\ rtc_args.delay \in 32..131071) =>
        LET inner == set_wakeup_interval_inner(rtc_config,
                                               F32FromInt(rtc_args.delay))
        IN  /\ rtc.wucksel = inner.word
            /\ rtc.wut = F32AsU16(inner.wutr)

\* C38: when re_select_input restores a PLL source, the write of SW happens
\* with the PLL turned on and after PLLRDY has been observed set.
C38_PllReadyBeforeSw ==
    [][(Writes("CFGR.sw") /\ lp_args.op \in LowPowerOps
          /\ lp_args.input_src.kind = "Pll") =>
            /\ rcc.pllon
            /\ rcc.pllrdy
            /\ "pllrdy" \in observed]_vars

\* The writes of the current call that the RTC honours only while write
\* protection is off: CR, WUTR, the alarm registers, TR, DR and ISR.INIT.
ProtectedWrites ==
    {"CR.wute=0", "CR.wute=1", "CR.wutie", "CR.wcksel", "CR.wcksel+wute=1",
     "CR.alraie", "CR.alrbie", "CR.tsie", "CR.fmt", "CR.bkp",
     "CR.alrae=0", "CR.alrae=1", "CR.alrbe=0", "CR.alrbe=1",
     "WUTR.wut", "alrmar", "alrmbr", "TR", "DR", "ISR.init=1", "ISR.init=0"}

\* C32: whenever no operation is in progress, write protection is locked and
\* the last write of WPR was 0xFF; and every write of a write-protected RTC
\* register lands while protection is off, that is after the keys 0xCA, 0x53
\* and before the relock.
C32_ProtectionDiscipline ==
    /\ [](pc \in {"idle", "returned"} =>
            /\ rtc.wpr = "locked"
            /\ LastPos("WPR.0xFF") >= LastPos("WPR.0xCA")
            /\ LastPos("WPR.0xFF") >= LastPos("WPR.0x53"))
    /\ [][\A w \in ProtectedWrites : Writes(w) =>
            /\ rtc.wpr = "unlocked"
            /\ 0 < LastPos("WPR.0xCA")
            /\ LastPos("WPR.0xCA") < LastPos("WPR.0x53")
            /\ LastPos("WPR.0xFF") < LastPos("WPR.0xCA")]_vars

C32_Witness ==
    /\ calls = MaxOpsCalls
    /\ pc = "returned"
    /\ rtc_args.op = "set_date_time"
    /\ rtc.tr = TimeWord(rtc_args.time)
    /\ rtc.dr = DateWord(rtc_args.date)
    /\ rtc.wute
    /\ rtc.wpr = "locked"

\* The operations that program the wakeup timer.
ProgramOps == {"set_wakeup", "set_wakeup_interval", "start"}

\* C33: set_wakeup, set_wakeup_interval and WakeupTimer::start write WUTR and
\* WUCKSEL only after they have cleared WUTE and seen WUTWF set, with WUTE
\* still clear and WUTWF still set at the write; and WUTE is set when each of
\* them returns.
C33_ReprogramWhileStopped ==
    /\ [][(rtc_args.op \in ProgramOps
            /\ (Writes("WUTR.wut") \/ Writes("CR.wcksel")
                  \/ Writes("CR.wcksel+wute=1"))) =>
            /\ LastPos("CR.wute=0") > 0
            /\ "wutwf" \in observed
            /\ ~rtc.wute
            /\ rtc.wutwf]_vars
    /\ []((pc = "returned" /\ rtc_args.op \in ProgramOps) => rtc.wute)

C33_Witness ==
    /\ pc = "returned"
    /\ rtc_args.op = "set_wakeup"
    /\ "entry.wute" \in observed
    /\ {"WUTR.wut", "CR.wcksel"} \subseteq Written
    /\ rtc.wut = 40 /\ rtc.wucksel = 4
    /\ rtc.wute

\* C35: when clear_wakeup_flag returns, WUTF is clear unless the hardware has
\* raised it again since the clear, and WUTE is what it was when the call
\* began: a wakeup timer that was disabled is still disabled.
C35_ClearFlagKeepsEnable ==
    (pc = "returned" /\ rtc_args.op = "clear_wakeup_flag") =>
        /\ rtc.wutf => ~ClearedAndQuiet("ISR.wutf=0", "HW.wutf")
        /\ rtc.wute <=> "entry.wute" \in observed

\* C37: with the default wakeup interrupt handler preempting the foreground
\* at any point, every write the foreground makes to a write-protected RTC
\* register lands while protection is off, and protection is locked whenever
\* no operation is in progress.
C37_PreemptionSafe ==
    /\ [][\A w \in ProtectedWrites : Writes(w) => rtc.wpr = "unlocked"]_vars
    /\ [](pc \in {"idle", "returned"} => rtc.wpr = "locked")

\* The update flag is set and the hardware has raised it: an update event of
\* the counter came after the last clear of this call, or the flag was set
\* when the call began and the call has not cleared it.
RaisedByHardware ==
    \/ LastPos("HW.uif") > LastPos("SR.uif=0")
    \/ "entry.uif" \in observed /\ LastPos("SR.uif=0") = 0 /\ LastPos("EGR.ug") = 0

\* C39: start writes PSC and ARR with the counter stopped, clears the flag of
\* the update event it forces, and enables the counter as its last write; a
\* set update flag outside start is always one the hardware raised, so wait
\* returns Ok only for such an event and WouldBlock otherwise, and after an Ok
\* the flag is clear until the hardware raises it again.
C39_CountDownProtocol ==
    /\ [][/\ (Writes("PSC") \/ Writes("ARR")) => ~tim.cen /\ ~tim'.cen
          /\ Writes("CR1.cen=1") =>
                /\ 0 < LastPos("PSC") /\ LastPos("PSC") < LastPos("ARR")
                /\ LastPos("ARR") < LastPos("EGR.ug")
                /\ LastPos("EGR.ug") < LastPos("SR.uif=0")
                /\ ~tim.uif
                /\ pc' = "returned"]_vars
    /\ []((tim.uif /\ pc # "cd_clear") => RaisedByHardware)
    /\ []((pc = "returned" /\ tim_args.op = "start") => tim.cen)
    /\ []((pc = "returned" /\ tim_args.op = "wait") =>
            /\ result \in {"Ok", "WouldBlock"}
            /\ result = "Ok" <=> "uif" \in observed
            /\ result = "Ok" =>
                  \/ "entry.uif" \in observed
                  \/ \E i \in 1..Len(log) :
                        log[i] = "HW.uif" /\ i < LastPos("SR.read"))

C39_Witness ==
    /\ calls = MaxCalls
    /\ pc = "returned"
    /\ tim_args.op = "wait"
    /\ result = "WouldBlock"
    /\ ~("entry.uif" \in observed)
    /\ tim.cen
    /\ tim.psc = 1220 /\ tim.arr = 65520

=============================================================================
